---- MODULE Spec2Model ----
(***************************************************************************)
(* MoleMath: the chemical formula parser, the equation parser, the two     *)
(* equation balancers (trial-and-error and algebraic) and the exact        *)
(* fraction type RobustFraction.                                           *)
(*                                                                         *)
(* A JavaScript string is modelled as a sequence of one-character strings, *)
(* a JavaScript number as an integer (every number the balancer core       *)
(* computes is an integer well below 2^53, so no rounding takes place).    *)
(* A thrown exception is modelled as a result record with threw = TRUE.    *)
(***************************************************************************)
EXTENDS Integers, Sequences, FiniteSets, TLC

VARIABLES
    loadedElementMap,   \* periodicTable.ts: the module-level lazy cache
    entry,              \* the function (or RobustFraction method) called
    pc,                 \* position of the call in its function body
    history,            \* the calls completed so far: [entry, input, result]
    formula,            \* parseChemicalFormula: the argument
    formulaResult,      \* parseChemicalFormula(formula)
    normalized,         \* normalizeFormula(formula)
    normalizedResult,   \* parseChemicalFormula(normalizeFormula(formula))
    input,              \* balanceChemicalEquation: [equation, method]
    maxIterations,      \* balanceByTrialAndError: maxIterations
    equation,           \* the ChemicalEquation handed to the balancer
    allElements,        \* balanceByTrialAndError: allElements
    reactantCoeffs,     \* balanceByTrialAndError: reactantCoeffs
    productCoeffs,      \* balanceByTrialAndError: productCoeffs
    iteration,          \* balanceByTrialAndError: iteration
    tested,             \* how many vectors the search loop has tested
    steps,              \* steps (trial-and-error), allSteps (algebraic)
    matrix,             \* what buildElementMatrix returned
    reduced,            \* what gaussianEliminationRobust returned
    fractionSolution,   \* what findNullSpace returned
    integerCoeffs,      \* what normalizeToPositiveIntegers returned
    result,             \* the BalanceResult returned
    fracArgs,           \* RobustFraction: the constructor's arguments
    fracA,              \* RobustFraction: the receiver of the method
    fracB,              \* RobustFraction: the argument of the method
    fracR,              \* RobustFraction: the value produced
    fracThrew           \* RobustFraction: whether the operation threw

vars == <<loadedElementMap, entry, pc, history, formula, formulaResult,
          normalized, normalizedResult, input, maxIterations, equation,
          allElements, reactantCoeffs, productCoeffs, iteration, tested, steps,
          matrix, reduced, fractionSolution, integerCoeffs, result,
          fracArgs, fracA, fracB, fracR, fracThrew>>

formulaVars == <<formula, formulaResult, normalized, normalizedResult>>
searchVars == <<allElements, reactantCoeffs, productCoeffs, iteration, tested>>
algebraVars == <<matrix, reduced, fractionSolution, integerCoeffs>>
balanceVars == <<input, maxIterations, equation, searchVars, steps,
                 algebraVars, result>>
fractionVars == <<fracArgs, fracA, fracB, fracR, fracThrew>>

(***************************************************************************)
(* Characters and strings                                                  *)
(***************************************************************************)
UpperSeq == <<"A", "B", "C", "D", "E", "F", "G", "H", "I", "J", "K", "L",
    "M", "N", "O", "P", "Q", "R", "S", "T", "U", "V", "W",
    "X", "Y", "Z">>
LowerSeq == <<"a", "b", "c", "d", "e", "f", "g", "h", "i", "j", "k", "l",
    "m", "n", "o", "p", "q", "r", "s", "t", "u", "v", "w",
    "x", "y", "z">>
DigitSeq == <<"0", "1", "2", "3", "4", "5", "6", "7", "8", "9">>

Range(s) == {s[i] : i \in 1..Len(s)}

\* /[A-Z]/
Upper == Range(UpperSeq)
\* /[a-z]/
Lower == Range(LowerSeq)
\* /\d/
Digits == Range(DigitSeq)
\* /\s/ and the characters String.prototype.trim removes
Whitespace == {" "}

\* The code unit order of the letters, which Array.prototype.sort compares.
CharCode(c) ==
    IF c \in Upper THEN CHOOSE i \in 1..26 : UpperSeq[i] = c
    ELSE 100 + (CHOOSE i \in 1..26 : LowerSeq[i] = c)

DigitValue(c) == (CHOOSE i \in 1..10 : DigitSeq[i] = c) - 1

\* parseInt(digits, 10) of a non-empty run of digits
RECURSIVE parseInt(_)
parseInt(digits) ==
    IF Len(digits) = 0 THEN 0
    ELSE 10 * parseInt(SubSeq(digits, 1, Len(digits) - 1))
         + DigitValue(digits[Len(digits)])

\* String.prototype.trim
RECURSIVE trim(_)
trim(s) ==
    IF Len(s) = 0 THEN s
    ELSE IF s[1] \in Whitespace THEN trim(Tail(s))
    ELSE IF s[Len(s)] \in Whitespace THEN trim(SubSeq(s, 1, Len(s) - 1))
    ELSE s

\* a < b in the order of Array.prototype.sort (code units, a prefix first)
RECURSIVE StrLess(_, _)
StrLess(a, b) ==
    IF Len(b) = 0 THEN FALSE
    ELSE IF Len(a) = 0 THEN TRUE
    ELSE IF a[1] # b[1] THEN CharCode(a[1]) < CharCode(b[1])
    ELSE StrLess(Tail(a), Tail(b))

\* Array.from(set).sort()
RECURSIVE SortStrings(_)
SortStrings(S) ==
    IF S = {} THEN <<>>
    ELSE LET m == CHOOSE x \in S : \A y \in S \ {x} : StrLess(x, y)
         IN <<m>> \o SortStrings(S \ {m})

(***************************************************************************)
(* constants/chemical.ts                                                   *)
(***************************************************************************)
MAX_ATOMS_PER_MOLECULE == 1000
MAX_COEFFICIENT == 100
MAX_FORMULA_LENGTH == 50

(***************************************************************************)
(* data/periodicTable.ts: the element lookup.  The table itself            *)
(* (shared/periodic-table.json) is data outside the sources; it is taken   *)
(* to hold the 118 elements of the periodic table.                         *)
(***************************************************************************)
periodicTableData == {
    <<"H">>, <<"H","e">>, <<"L","i">>, <<"B","e">>, <<"B">>, <<"C">>,
    <<"N">>, <<"O">>, <<"F">>, <<"N","e">>, <<"N","a">>, <<"M","g">>,
    <<"A","l">>, <<"S","i">>, <<"P">>, <<"S">>, <<"C","l">>, <<"A","r">>,
    <<"K">>, <<"C","a">>, <<"S","c">>, <<"T","i">>, <<"V">>, <<"C","r">>,
    <<"M","n">>, <<"F","e">>, <<"C","o">>, <<"N","i">>, <<"C","u">>,
    <<"Z","n">>, <<"G","a">>, <<"G","e">>, <<"A","s">>, <<"S","e">>,
    <<"B","r">>, <<"K","r">>, <<"R","b">>, <<"S","r">>, <<"Y">>, <<"Z","r">>,
    <<"N","b">>, <<"M","o">>, <<"T","c">>, <<"R","u">>, <<"R","h">>,
    <<"P","d">>, <<"A","g">>, <<"C","d">>, <<"I","n">>, <<"S","n">>,
    <<"S","b">>, <<"T","e">>, <<"I">>, <<"X","e">>, <<"C","s">>, <<"B","a">>,
    <<"L","a">>, <<"C","e">>, <<"P","r">>, <<"N","d">>, <<"P","m">>,
    <<"S","m">>, <<"E","u">>, <<"G","d">>, <<"T","b">>, <<"D","y">>,
    <<"H","o">>, <<"E","r">>, <<"T","m">>, <<"Y","b">>, <<"L","u">>,
    <<"H","f">>, <<"T","a">>, <<"W">>, <<"R","e">>, <<"O","s">>, <<"I","r">>,
    <<"P","t">>, <<"A","u">>, <<"H","g">>, <<"T","l">>, <<"P","b">>,
    <<"B","i">>, <<"P","o">>, <<"A","t">>, <<"R","n">>, <<"F","r">>,
    <<"R","a">>, <<"A","c">>, <<"T","h">>, <<"P","a">>, <<"U">>, <<"N","p">>,
    <<"P","u">>, <<"A","m">>, <<"C","m">>, <<"B","k">>, <<"C","f">>,
    <<"E","s">>, <<"F","m">>, <<"M","d">>, <<"N","o">>, <<"L","r">>,
    <<"R","f">>, <<"D","b">>, <<"S","g">>, <<"B","h">>, <<"H","s">>,
    <<"M","t">>, <<"D","s">>, <<"R","g">>, <<"C","n">>, <<"N","h">>,
    <<"F","l">>, <<"M","c">>, <<"L","v">>, <<"T","s">>, <<"O","g">> }

\* createElementMap(periodicTableData): the symbols that have an entry
createElementMap(data) == data

\* loadPeriodicTable, the cache being empty
loadPeriodicTable == createElementMap(periodicTableData)

\* loadedElementMap is <<>> for null and <<map>> once loaded: its value after
\* a call of getElementMap
cacheAfterLookup(cache) == IF Len(cache) = 0 THEN <<loadPeriodicTable>> ELSE cache

\* getElementMap returning what the cache held before it was filled
getElementMapStale(cache) == IF Len(cache) = 0 THEN {} ELSE cache[1]

\* getElementMap: load the table on first use, then serve the cache
getElementMap(cache) == cacheAfterLookup(cache)[1]

\* isValidElement(symbol), the cache being `cache` when it is called
isValidElement(symbol, cache) == symbol \in getElementMap(cache)

(***************************************************************************)
(* utils/chemistry/formulaParser.ts: the tokenizer                         *)
(***************************************************************************)
Token(type, value, position) ==
    [type |-> type, value |-> value, position |-> position]

\* the index (from 0) of the last digit of the run that starts at position
RECURSIVE digitRunEnd(_, _)
digitRunEnd(str, position) ==
    IF position + 1 < Len(str) /\ str[position + 2] \in Digits
    THEN digitRunEnd(str, position + 1)
    ELSE position

\* the while loop of tokenize; position counts from 0 as in the source
RECURSIVE tokenizeFrom(_, _, _)
tokenizeFrom(str, position, tokens) ==
    IF position >= Len(str) THEN tokens
    ELSE LET char == str[position + 1] IN
        IF char \in Upper THEN
            IF position + 1 < Len(str) /\ str[position + 2] \in Lower
            THEN tokenizeFrom(str, position + 2,
                    Append(tokens, Token("element", <<char, str[position + 2]>>,
                                         position + 1)))
            ELSE tokenizeFrom(str, position + 1,
                    Append(tokens, Token("element", <<char>>, position)))
        ELSE IF char \in Digits THEN
            LET last == digitRunEnd(str, position) IN
            tokenizeFrom(str, last + 1,
                Append(tokens, Token("number",
                                     SubSeq(str, position + 1, last + 1), last)))
        ELSE IF char = "(" THEN
            tokenizeFrom(str, position + 1,
                Append(tokens, Token("open-paren", <<char>>, position)))
        ELSE IF char = ")" THEN
            tokenizeFrom(str, position + 1,
                Append(tokens, Token("close-paren", <<char>>, position)))
        ELSE IF char \in Whitespace THEN
            tokenizeFrom(str, position + 1, tokens)
        ELSE <<>>

tokenize(str) == tokenizeFrom(str, 0, <<>>)

(***************************************************************************)
(* formulaParser.ts: class FormulaParser.  A Record<string, number> is a   *)
(* sequence of [symbol, count] in insertion order (the order Object.entries*)
(* gives).  Each method returns the accumulator, the cursor it leaves and  *)
(* whether it threw; looked records that isValidElement was called.        *)
(***************************************************************************)
INVALID_ELEMENT == "Elemento quimico no encontrado"
INVALID_SYNTAX == "Sintaxis incorrecta en la formula"
EMPTY_FORMULA == "La formula no puede estar vacia"
FORMULA_TOO_LONG == "La formula es demasiado larga"
VALUE_TOO_LARGE == "El valor es demasiado grande"

HasSymbol(elements, symbol) ==
    \E i \in 1..Len(elements) : elements[i].symbol = symbol

\* (elements[symbol] || 0)
CountOf(elements, symbol) ==
    IF HasSymbol(elements, symbol)
    THEN elements[CHOOSE i \in 1..Len(elements) : elements[i].symbol = symbol].count
    ELSE 0

\* addCount with the assignment elements[symbol] = count, nothing summed
setCount(elements, symbol, count) ==
    IF HasSymbol(elements, symbol)
    THEN [i \in 1..Len(elements) |->
            IF elements[i].symbol = symbol
            THEN [symbol |-> symbol, count |-> count]
            ELSE elements[i]]
    ELSE Append(elements, [symbol |-> symbol, count |-> count])

\* elements[symbol] = (elements[symbol] || 0) + count
addCount(elements, symbol, count) ==
    IF HasSymbol(elements, symbol)
    THEN [i \in 1..Len(elements) |->
            IF elements[i].symbol = symbol
            THEN [symbol |-> symbol, count |-> elements[i].count + count]
            ELSE elements[i]]
    ELSE Append(elements, [symbol |-> symbol, count |-> count])

\* mergeGroup with the multiplier left out
RECURSIVE mergeGroupOnce(_, _, _)
mergeGroupOnce(elements, groupElements, multiplier) ==
    IF Len(groupElements) = 0 THEN elements
    ELSE mergeGroupOnce(addCount(elements, groupElements[1].symbol,
                                 groupElements[1].count),
                        Tail(groupElements), multiplier)

\* for (const [element, count] of Object.entries(groupElements)) ...
RECURSIVE mergeGroup(_, _, _)
mergeGroup(elements, groupElements, multiplier) ==
    IF Len(groupElements) = 0 THEN elements
    ELSE mergeGroup(addCount(elements, groupElements[1].symbol,
                             groupElements[1].count * multiplier),
                    Tail(groupElements), multiplier)

Returned(elements, position, looked) ==
    [elements |-> elements, position |-> position, threw |-> FALSE,
     error |-> <<>>, looked |-> looked]

Thrown(error, position, looked) ==
    [elements |-> <<>>, position |-> position, threw |-> TRUE,
     error |-> error, looked |-> looked]

\* FormulaParser.parseElement
parseElement(tokens, position, elements, cache) ==
    LET elementToken == tokens[position + 1]
        next == position + 1
    IN  IF ~isValidElement(elementToken.value, cache)
        THEN Thrown(<<INVALID_ELEMENT, elementToken.value>>, next, TRUE)
        ELSE IF next < Len(tokens) /\ tokens[next + 1].type = "number"
        THEN LET count == parseInt(tokens[next + 1].value) IN
             IF count <= 0 \/ count > MAX_ATOMS_PER_MOLECULE
             THEN Thrown(<<VALUE_TOO_LARGE>>, next + 1, TRUE)
             ELSE Returned(addCount(elements, elementToken.value, count),
                           next + 1, TRUE)
        ELSE Returned(addCount(elements, elementToken.value, 1), next, TRUE)

RECURSIVE parseGroupLoop(_, _, _, _, _)

\* FormulaParser.parseGroup
parseGroup(tokens, position, cache) ==
    parseGroupLoop(tokens, position, <<>>, cache, FALSE)

\* FormulaParser.parseParentheses
parseParentheses(tokens, position, elements, cache) ==
    LET group == parseGroup(tokens, position + 1, cache)
        at == group.position
    IN  IF group.threw THEN group
        ELSE IF at >= Len(tokens) \/ tokens[at + 1].type # "close-paren"
        THEN Thrown(<<INVALID_SYNTAX>>, at, group.looked)
        ELSE IF at + 1 < Len(tokens) /\ tokens[at + 2].type = "number"
        THEN LET multiplier == parseInt(tokens[at + 2].value) IN
             IF multiplier <= 0 \/ multiplier > MAX_ATOMS_PER_MOLECULE
             THEN Thrown(<<VALUE_TOO_LARGE>>, at + 2, group.looked)
             ELSE Returned(mergeGroup(elements, group.elements, multiplier),
                           at + 2, group.looked)
        ELSE Returned(mergeGroup(elements, group.elements, 1), at + 1,
                      group.looked)

\* the while loop of parseGroup
parseGroupLoop(tokens, position, elements, cache, looked) ==
    IF position >= Len(tokens) THEN Returned(elements, position, looked)
    ELSE LET token == tokens[position + 1] IN
        IF token.type = "element" THEN
            LET r == parseElement(tokens, position, elements, cache) IN
            IF r.threw THEN r
            ELSE parseGroupLoop(tokens, r.position, r.elements, cache, TRUE)
        ELSE IF token.type = "open-paren" THEN
            LET r == parseParentheses(tokens, position, elements, cache) IN
            IF r.threw THEN [r EXCEPT !.looked = r.looked \/ looked]
            ELSE parseGroupLoop(tokens, r.position, r.elements, cache,
                                r.looked \/ looked)
        ELSE IF token.type = "close-paren" THEN
            Returned(elements, position, looked)
        ELSE Thrown(<<INVALID_SYNTAX>>, position, looked)

\* FormulaParser.parse without its try/catch: the exception escapes
parseNoCatch(tokens, cache) ==
    LET group == parseGroup(tokens, 0, cache) IN
    IF group.threw
    THEN [elements |-> <<>>, isValid |-> FALSE, error |-> group.error,
          threw |-> TRUE, looked |-> group.looked]
    ELSE IF group.position < Len(tokens)
    THEN [elements |-> <<>>, isValid |-> FALSE, error |-> <<INVALID_SYNTAX>>,
          threw |-> FALSE, looked |-> group.looked]
    ELSE [elements |-> group.elements, isValid |-> TRUE, error |-> <<>>,
          threw |-> FALSE, looked |-> group.looked]

\* FormulaParser.parse without the test for tokens left over (lines 608-614)
parseIgnoreLeftover(tokens, cache) ==
    LET group == parseGroup(tokens, 0, cache) IN
    IF group.threw
    THEN [elements |-> <<>>, isValid |-> FALSE, error |-> group.error,
          threw |-> FALSE, looked |-> group.looked]
    ELSE [elements |-> group.elements, isValid |-> TRUE, error |-> <<>>,
          threw |-> FALSE, looked |-> group.looked]

\* FormulaParser.parse
parse(tokens, cache) ==
    LET group == parseGroup(tokens, 0, cache) IN
    IF group.threw
    THEN [elements |-> <<>>, isValid |-> FALSE, error |-> group.error,
          threw |-> FALSE, looked |-> group.looked]
    ELSE IF group.position < Len(tokens)
    THEN [elements |-> <<>>, isValid |-> FALSE, error |-> <<INVALID_SYNTAX>>,
          threw |-> FALSE, looked |-> group.looked]
    ELSE [elements |-> group.elements, isValid |-> TRUE, error |-> <<>>,
          threw |-> FALSE, looked |-> group.looked]

RECURSIVE SumCounts(_)
SumCounts(elements) ==
    IF Len(elements) = 0 THEN 0
    ELSE elements[1].count + SumCounts(Tail(elements))

ParsedFormula(elements, str, isValid, error, threw, looked) ==
    [elements |-> elements, formula |-> str, isValid |-> isValid,
     error |-> error, threw |-> threw, looked |-> looked]

\* parseChemicalFormula without the test of the total (lines 744-752)
parsedFormulaOfNoTotal(cleanFormula, parseResult) ==
    IF parseResult.threw
    THEN ParsedFormula(<<>>, cleanFormula, FALSE, parseResult.error, TRUE,
                       parseResult.looked)
    ELSE IF ~parseResult.isValid
    THEN ParsedFormula(<<>>, cleanFormula, FALSE, parseResult.error, FALSE,
                       parseResult.looked)
    ELSE ParsedFormula(parseResult.elements, cleanFormula, TRUE, <<>>, FALSE,
                       parseResult.looked)

\* parseChemicalFormula: the result for what parser.parse() returned
parsedFormulaOf(cleanFormula, parseResult) ==
    IF parseResult.threw
    THEN ParsedFormula(<<>>, cleanFormula, FALSE, parseResult.error, TRUE,
                       parseResult.looked)
    ELSE IF ~parseResult.isValid
    THEN ParsedFormula(<<>>, cleanFormula, FALSE, parseResult.error, FALSE,
                       parseResult.looked)
    ELSE IF SumCounts(parseResult.elements) > MAX_ATOMS_PER_MOLECULE
    THEN ParsedFormula(<<>>, cleanFormula, FALSE, <<VALUE_TOO_LARGE>>, FALSE,
                       parseResult.looked)
    ELSE ParsedFormula(parseResult.elements, cleanFormula, TRUE, <<>>, FALSE,
                       parseResult.looked)

\* parseChemicalFormula: const tokens = tokenize(cleanFormula)
parseTokens(cleanFormula, tokens, cache) ==
    IF Len(tokens) = 0
    THEN ParsedFormula(<<>>, cleanFormula, FALSE, <<INVALID_SYNTAX>>,
                       FALSE, FALSE)
    ELSE parsedFormulaOf(cleanFormula, parse(tokens, cache))

\* parseChemicalFormula: const cleanFormula = formula.trim()
parseClean(cleanFormula, cache) ==
    IF Len(cleanFormula) = 0
    THEN ParsedFormula(<<>>, <<>>, FALSE, <<EMPTY_FORMULA>>, FALSE, FALSE)
    ELSE IF Len(cleanFormula) > MAX_FORMULA_LENGTH
    THEN ParsedFormula(<<>>, cleanFormula, FALSE, <<FORMULA_TOO_LONG>>,
                       FALSE, FALSE)
    ELSE parseTokens(cleanFormula, tokenize(cleanFormula), cache)

\* parseChemicalFormula(formula), the cache being `cache` when it is called
parseChemicalFormula(str, cache) == parseClean(trim(str), cache)

\* String.prototype.replace(/\s+/g, '')
RECURSIVE removeWhitespace(_)
removeWhitespace(str) ==
    IF Len(str) = 0 THEN str
    ELSE IF str[1] \in Whitespace THEN removeWhitespace(Tail(str))
    ELSE <<str[1]>> \o removeWhitespace(Tail(str))

\* normalizeFormula with the whitespace removal left out (trim only)
normalizeFormulaTrimOnly(str) ==
    IF Len(str) = 0 THEN <<>>
    ELSE LET n == trim(str) IN
         IF Len(n) = 0
            \/ \E i \in 1..Len(n) : n[i] \notin Upper \cup Lower \cup Digits \cup {"(", ")"}
         THEN <<>>
         ELSE n

\* normalizeFormula
normalizeFormula(str) ==
    IF Len(str) = 0 THEN <<>>
    ELSE LET n == removeWhitespace(trim(str)) IN
         \* !/^[A-Za-z0-9()]+$/.test(normalized)
         IF Len(n) = 0
            \/ \E i \in 1..Len(n) : n[i] \notin Upper \cup Lower \cup Digits \cup {"(", ")"}
         THEN <<>>
         ELSE n

(***************************************************************************)
(* String helpers used by the validator and the equation parser            *)
(***************************************************************************)
StartsWithAt(str, sub, i) ==
    i + Len(sub) <= Len(str) /\ SubSeq(str, i + 1, i + Len(sub)) = sub

\* String.prototype.indexOf (from 0; -1 when absent)
indexOf(str, sub) ==
    IF \E i \in 0..Len(str) : StartsWithAt(str, sub, i)
    THEN CHOOSE i \in 0..Len(str) :
            /\ StartsWithAt(str, sub, i)
            /\ \A j \in 0..(i - 1) : ~StartsWithAt(str, sub, j)
    ELSE -1

\* String.prototype.includes
includes(str, sub) == indexOf(str, sub) # -1

\* String.prototype.split with a non-empty separator
RECURSIVE split(_, _)
split(str, sep) ==
    LET i == indexOf(str, sep) IN
    IF i = -1 THEN <<str>>
    ELSE <<SubSeq(str, 1, i)>> \o split(SubSeq(str, i + Len(sep) + 1, Len(str)), sep)

\* the length of the run of digits a string starts with
RECURSIVE leadingDigits(_)
leadingDigits(str) ==
    IF Len(str) > 0 /\ str[1] \in Digits THEN 1 + leadingDigits(Tail(str)) ELSE 0

\* the length of the run of whitespace a string starts with
RECURSIVE leadingWhitespace(_)
leadingWhitespace(str) ==
    IF Len(str) > 0 /\ str[1] \in Whitespace
    THEN 1 + leadingWhitespace(Tail(str)) ELSE 0

\* String.prototype.replace(/^\d+/, '')
stripLeadingDigits(str) == SubSeq(str, leadingDigits(str) + 1, Len(str))

\* Number.prototype.toString of a non-negative integer
RECURSIVE toString(_)
toString(n) ==
    IF n < 10 THEN <<DigitSeq[n + 1]>>
    ELSE toString(n \div 10) \o <<DigitSeq[(n % 10) + 1]>>

\* Array.prototype.join
RECURSIVE join(_, _)
join(parts, sep) ==
    IF Len(parts) = 0 THEN <<>>
    ELSE IF Len(parts) = 1 THEN parts[1]
    ELSE parts[1] \o sep \o join(Tail(parts), sep)

(***************************************************************************)
(* formulaParser.ts: validateFormulaSyntax                                 *)
(***************************************************************************)
\* [A-Z][a-z]?\d* matched at index i (from 1): the index after it, 0 if none
matchElementAt(str, i) ==
    IF i > Len(str) \/ str[i] \notin Upper THEN 0
    ELSE LET j == IF i + 1 <= Len(str) /\ str[i + 1] \in Lower
                  THEN i + 2 ELSE i + 1
         IN j + leadingDigits(SubSeq(str, j, Len(str)))

\* ([A-Z][a-z]?\d*)+ \) \d* matched at index i: the index after it, 0 if none
RECURSIVE matchGroupBodyAt(_, _, _)
matchGroupBodyAt(str, i, seen) ==
    IF i > Len(str) THEN 0
    ELSE IF str[i] = ")" THEN
        IF seen THEN i + 1 + leadingDigits(SubSeq(str, i + 1, Len(str))) ELSE 0
    ELSE LET j == matchElementAt(str, i) IN
         IF j = 0 THEN 0 ELSE matchGroupBodyAt(str, j, TRUE)

\* ( \(E\)\d* | \(E(E)*\)\d* | E )* $ matched at index i
RECURSIVE matchItemsAt(_, _)
matchItemsAt(str, i) ==
    IF i > Len(str) THEN TRUE
    ELSE IF str[i] = "(" THEN
        LET j == matchGroupBodyAt(str, i + 1, FALSE) IN
        IF j = 0 THEN FALSE ELSE matchItemsAt(str, j)
    ELSE LET j == matchElementAt(str, i) IN
         IF j = 0 THEN FALSE ELSE matchItemsAt(str, j)

\* VALIDATION_PATTERNS.BASIC_FORMULA.test(str)
BASIC_FORMULA(str) ==
    LET j == matchElementAt(str, 1) IN
    IF j = 0 THEN FALSE ELSE matchItemsAt(str, j)

\* the running parenthesis count of validateFormulaSyntax: -1 once it went
\* negative, the final count otherwise
RECURSIVE parenCount(_, _)
parenCount(str, count) ==
    IF Len(str) = 0 THEN count
    ELSE LET c == IF str[1] = "(" THEN count + 1
                  ELSE IF str[1] = ")" THEN count - 1 ELSE count
         IN IF c < 0 THEN -1 ELSE parenCount(Tail(str), c)

validateFormulaSyntax(str) ==
    IF Len(str) = 0 \/ Len(trim(str)) = 0 THEN FALSE
    ELSE LET cleanFormula == trim(str) IN
         IF ~BASIC_FORMULA(cleanFormula) THEN FALSE
         ELSE parenCount(cleanFormula, 0) = 0

(***************************************************************************)
(* validator.ts: validateChemicalFormula, validateChemicalEquation         *)
(* (the warnings decide nothing and are left out)                          *)
(***************************************************************************)
Validation(isValid, errors, threw, looked) ==
    [isValid |-> isValid, errors |-> errors, threw |-> threw, looked |-> looked]

\* the errors the loop over parsed.elements pushes
RECURSIVE elementErrors(_, _)
elementErrors(elements, cache) ==
    IF Len(elements) = 0 THEN <<>>
    ELSE LET e == elements[1] IN
        (IF ~isValidElement(e.symbol, cache)
         THEN << <<INVALID_ELEMENT, e.symbol>> >> ELSE <<>>)
        \o (IF e.count <= 0 THEN << <<"Cantidad invalida", e.symbol>> >> ELSE <<>>)
        \o (IF e.count > MAX_ATOMS_PER_MOLECULE
            THEN << <<"Demasiados atomos", e.symbol>> >> ELSE <<>>)
        \o elementErrors(Tail(elements), cache)

\* validateChemicalFormula: the errors found in the parsed elements
validationOf(errors) == Validation(Len(errors) = 0, errors, FALSE, TRUE)

\* validateChemicalFormula: const parsed = parseChemicalFormula(cleanFormula)
validateParsed(parsed, cache) ==
    IF parsed.threw THEN Validation(FALSE, <<parsed.error>>, TRUE, parsed.looked)
    ELSE IF ~parsed.isValid
    THEN Validation(FALSE, <<parsed.error>>, FALSE, parsed.looked)
    ELSE validationOf(elementErrors(parsed.elements, cache))

\* validateChemicalFormula: const cleanFormula = formula.trim()
validateClean(cleanFormula, cache) ==
    IF Len(cleanFormula) = 0
    THEN Validation(FALSE, << <<EMPTY_FORMULA>> >>, FALSE, FALSE)
    ELSE IF Len(cleanFormula) > MAX_FORMULA_LENGTH
    THEN Validation(FALSE, << <<FORMULA_TOO_LONG>> >>, FALSE, FALSE)
    ELSE IF ~validateFormulaSyntax(cleanFormula)
    THEN Validation(FALSE, << <<INVALID_SYNTAX>> >>, FALSE, FALSE)
    ELSE validateParsed(parseChemicalFormula(cleanFormula, cache), cache)

validateChemicalFormula(str, cache) == validateClean(trim(str), cache)

ARROW_GLYPH == <<"→">>
ARROW_ASCII == <<"-", ">">>
ARROW_EQUALS == <<"=">>
PLUS == <<"+">>

\* the arrow search with '=' as the only pattern
firstArrowEqualsOnly(str, patterns) ==
    IF includes(str, ARROW_EQUALS) THEN ARROW_EQUALS ELSE <<>>

\* the first pattern of `patterns` that str includes, <<>> if it has none
RECURSIVE firstArrow(_, _)
firstArrow(str, patterns) ==
    IF Len(patterns) = 0 THEN <<>>
    ELSE IF includes(str, patterns[1]) THEN patterns[1]
    ELSE firstArrow(str, Tail(patterns))

\* errors.push(`Reactivo ${i + 1} (${formula}): ${validation.errors.join(', ')}`)
sideErrorsWith(validation, rest, side, i, str) ==
    Validation(validation.isValid /\ rest.isValid,
               (IF validation.isValid THEN <<>>
                ELSE << <<side, i, str>> \o validation.errors >>) \o rest.errors,
               validation.threw \/ rest.threw, validation.looked \/ rest.looked)

\* validateChemicalEquation: the errors pushed for the formulas of one side
RECURSIVE sideErrors(_, _, _, _)
sideErrors(formulas, i, side, cache) ==
    IF i > Len(formulas) THEN Validation(TRUE, <<>>, FALSE, FALSE)
    ELSE IF Len(formulas[i]) = 0 THEN sideErrors(formulas, i + 1, side, cache)
    ELSE sideErrorsWith(validateChemicalFormula(formulas[i], cache),
                        sideErrors(formulas, i + 1, side, cache),
                        side, i, formulas[i])

\* .map(f => f.trim().replace(/^\d+/, ''))
RECURSIVE stripAll(_)
stripAll(parts) ==
    IF Len(parts) = 0 THEN <<>>
    ELSE <<stripLeadingDigits(trim(parts[1]))>> \o stripAll(Tail(parts))

\* isValid: errors.length === 0, the errors of the two loops in order
bothSides(reactantErrors, productErrors) ==
    Validation(reactantErrors.isValid /\ productErrors.isValid,
               reactantErrors.errors \o productErrors.errors,
               reactantErrors.threw \/ productErrors.threw,
               reactantErrors.looked \/ productErrors.looked)

\* validateChemicalEquation: const [reactantsStr, productsStr] = parts
validateSides(reactantsStr, productsStr, cache) ==
    IF Len(trim(reactantsStr)) = 0 \/ Len(trim(productsStr)) = 0
    THEN Validation(FALSE,
            (IF Len(trim(reactantsStr)) = 0
             THEN << <<"La ecuacion debe tener reactivos">> >> ELSE <<>>)
            \o (IF Len(trim(productsStr)) = 0
                THEN << <<"La ecuacion debe tener productos">> >> ELSE <<>>),
            FALSE, FALSE)
    ELSE bothSides(
            sideErrors(stripAll(split(reactantsStr, PLUS)), 1, "Reactivo", cache),
            sideErrors(stripAll(split(productsStr, PLUS)), 1, "Producto", cache))

\* validateChemicalEquation: const parts = equation.split(arrowSymbol)
validateParts(parts, cache) ==
    IF Len(parts) # 2
    THEN Validation(FALSE,
            << <<"La ecuacion debe tener exactamente un simbolo de reaccion">> >>,
            FALSE, FALSE)
    ELSE validateSides(parts[1], parts[2], cache)

\* validateChemicalEquation: the arrow found, <<>> when arrowFound is false
validateArrow(str, arrowSymbol, cache) ==
    IF Len(arrowSymbol) = 0
    THEN Validation(FALSE, << <<"La ecuacion debe contener un simbolo de reaccion">> >>,
                    FALSE, FALSE)
    ELSE validateParts(split(str, arrowSymbol), cache)

validateChemicalEquation(str, cache) ==
    IF Len(str) = 0 \/ Len(trim(str)) = 0
    THEN Validation(FALSE, << <<"La ecuacion no puede estar vacia">> >>, FALSE, FALSE)
    ELSE validateArrow(str,
            firstArrow(str, <<ARROW_GLYPH, ARROW_ASCII, ARROW_EQUALS, ARROW_GLYPH>>),
            cache)

(***************************************************************************)
(* utils/helpers.ts: gcd, lcm                                              *)
(***************************************************************************)
Abs(x) == IF x < 0 THEN -x ELSE x

RECURSIVE gcdTwo(_, _)
gcdTwo(a, b) == IF Abs(b) = 0 THEN Abs(a) ELSE gcdTwo(Abs(b), Abs(a) % Abs(b))

\* numbers.reduce((acc, curr) => gcdTwo(acc, Math.abs(curr)))
RECURSIVE gcdReduce(_, _)
gcdReduce(acc, numbers) ==
    IF Len(numbers) = 0 THEN acc
    ELSE gcdReduce(gcdTwo(acc, Abs(numbers[1])), Tail(numbers))

gcd(numbers) ==
    IF Len(numbers) = 0 THEN 1
    ELSE IF Len(numbers) = 1 THEN Abs(numbers[1])
    ELSE gcdReduce(numbers[1], Tail(numbers))

lcmTwo(a, b) == Abs(a * b) \div gcd(<<a, b>>)

RECURSIVE lcmReduce(_, _)
lcmReduce(acc, numbers) ==
    IF Len(numbers) = 0 THEN acc
    ELSE lcmReduce(lcmTwo(acc, Abs(numbers[1])), Tail(numbers))

lcm(numbers) ==
    IF Len(numbers) = 0 THEN 1
    ELSE IF Len(numbers) = 1 THEN Abs(numbers[1])
    ELSE lcmReduce(numbers[1], Tail(numbers))

(***************************************************************************)
(* utils/chemistry/equationBalancer.ts: the equation parser                *)
(***************************************************************************)
Compound(str, coefficient) == [formula |-> str, coefficient |-> coefficient]

\* part.match(/^(\d*)\s*(.+)$/) on a trimmed, non-empty part: match[1] and
\* match[2].trim().  (.+) needs one character, so a part made of digits only
\* gives its last digit to (.+).
matchCompound(part) ==
    LET d == leadingDigits(part) IN
    IF d = Len(part)
    THEN [coefficientStr |-> SubSeq(part, 1, d - 1), formula |-> <<part[d]>>]
    ELSE LET rest == SubSeq(part, d + 1, Len(part))
             w == leadingWhitespace(rest)
         IN [coefficientStr |-> SubSeq(part, 1, d),
             formula |-> trim(SubSeq(rest, w + 1, Len(rest)))]

CompoundsList(compounds, isValid, error, threw, looked) ==
    [compounds |-> compounds, isValid |-> isValid, error |-> error,
     threw |-> threw, looked |-> looked]

RECURSIVE parseCompoundsLoop(_, _, _, _, _)

\* const coefficient = coefficientStr ? parseInt(coefficientStr, 10) : 1
coefficientOf(match) ==
    IF Len(match.coefficientStr) > 0 THEN parseInt(match.coefficientStr) ELSE 1

\* parseCompoundsList: const parsedFormula = parseChemicalFormula(formula)
parseCompoundParsed(parsedFormula, compound, rest, compounds, type, cache, looked) ==
    IF parsedFormula.threw
    THEN CompoundsList(<<>>, FALSE, parsedFormula.error, TRUE, TRUE)
    ELSE IF ~parsedFormula.isValid
    THEN CompoundsList(<<>>, FALSE, <<"Formula invalida en", type, compound.formula>>,
                       FALSE, looked \/ parsedFormula.looked)
    ELSE parseCompoundsLoop(rest, Append(compounds, compound), type, cache,
                            looked \/ parsedFormula.looked)

\* parseCompoundsList without the range test of lines 572-578
parseCompoundMatchUnchecked(match, rest, compounds, type, cache, looked) ==
    parseCompoundParsed(parseChemicalFormula(match.formula, cache),
                        Compound(match.formula, coefficientOf(match)),
                        rest, compounds, type, cache, looked)

\* parseCompoundsList: const match = part.match(/^(\d*)\s*(.+)$/)
parseCompoundMatch(match, rest, compounds, type, cache, looked) ==
    IF coefficientOf(match) <= 0 \/ coefficientOf(match) > MAX_COEFFICIENT
    THEN CompoundsList(<<>>, FALSE, <<"Coeficiente invalido", coefficientOf(match)>>,
                       FALSE, looked)
    ELSE parseCompoundParsed(parseChemicalFormula(match.formula, cache),
                             Compound(match.formula, coefficientOf(match)),
                             rest, compounds, type, cache, looked)

\* the for loop of parseCompoundsList
parseCompoundsLoop(compoundParts, compounds, type, cache, looked) ==
    IF Len(compoundParts) = 0
    THEN CompoundsList(compounds, TRUE, <<>>, FALSE, looked)
    ELSE IF Len(compoundParts[1]) = 0
    THEN parseCompoundsLoop(Tail(compoundParts), compounds, type, cache, looked)
    ELSE parseCompoundMatch(matchCompound(compoundParts[1]), Tail(compoundParts),
                            compounds, type, cache, looked)

\* .map(part => part.trim())
RECURSIVE trimAll(_)
trimAll(parts) ==
    IF Len(parts) = 0 THEN <<>> ELSE <<trim(parts[1])>> \o trimAll(Tail(parts))

parseCompoundsList(compoundsStr, type, cache) ==
    parseCompoundsLoop(trimAll(split(compoundsStr, PLUS)), <<>>, type, cache, FALSE)

\* parsed.elements.forEach(element => elementSet.add(element.symbol))
symbolsOf(parsed) ==
    IF parsed.isValid
    THEN {parsed.elements[k].symbol : k \in 1..Len(parsed.elements)}
    ELSE {}

\* the elements of the parsed formulas, as a set
elementSetOf(compounds, cache) ==
    UNION {symbolsOf(parseChemicalFormula(compounds[i].formula, cache)) :
            i \in 1..Len(compounds)}

getAllElements(compounds, cache) == SortStrings(elementSetOf(compounds, cache))

EquationParseResult(reactants, products, elements, isValid, error, threw, looked) ==
    [reactants |-> reactants, products |-> products, allElements |-> elements,
     isValid |-> isValid, error |-> error, threw |-> threw, looked |-> looked]

\* parseChemicalEquation: const products = parseCompoundsList(productsStr, 'products')
parseProducts(reactants, products, looked, cache) ==
    IF ~products.isValid
    THEN EquationParseResult(<<>>, <<>>, <<>>, FALSE, products.error,
                             products.threw,
                             looked \/ reactants.looked \/ products.looked)
    ELSE EquationParseResult(reactants.compounds, products.compounds,
            getAllElements(reactants.compounds \o products.compounds, cache),
            TRUE, <<>>, FALSE,
            looked \/ reactants.looked \/ products.looked)

\* parseChemicalEquation: const reactants = parseCompoundsList(reactantsStr, 'reactants')
parseReactants(reactants, productsStr, looked, cache) ==
    IF ~reactants.isValid
    THEN EquationParseResult(<<>>, <<>>, <<>>, FALSE, reactants.error,
                             reactants.threw, looked \/ reactants.looked)
    ELSE parseProducts(reactants,
                       parseCompoundsList(productsStr, "products", cache),
                       looked, cache)

\* parseChemicalEquation: the first arrow found and the two substrings
parseAtArrow(str, arrowSymbol, looked, cache) ==
    IF Len(arrowSymbol) = 0
    THEN EquationParseResult(<<>>, <<>>, <<>>, FALSE,
            <<"No se encontro simbolo de reaccion valido">>, FALSE, looked)
    ELSE parseReactants(
            parseCompoundsList(trim(SubSeq(str, 1, indexOf(str, arrowSymbol))),
                               "reactants", cache),
            trim(SubSeq(str, indexOf(str, arrowSymbol) + Len(arrowSymbol) + 1,
                        Len(str))),
            looked, cache)

\* parseChemicalEquation: const validation = validateChemicalEquation(equation)
parseValidated(str, validation, cache) ==
    IF validation.threw
    THEN EquationParseResult(<<>>, <<>>, <<>>, FALSE, validation.errors, TRUE,
                             validation.looked)
    ELSE IF ~validation.isValid
    THEN EquationParseResult(<<>>, <<>>, <<>>, FALSE, validation.errors, FALSE,
                             validation.looked)
    ELSE parseAtArrow(str,
            firstArrow(str, <<ARROW_GLYPH, ARROW_ASCII, ARROW_EQUALS>>),
            validation.looked, cache)

parseChemicalEquation(str, cache) ==
    parseValidated(str, validateChemicalEquation(str, cache), cache)

(***************************************************************************)
(* equationBalancer.ts: counting atoms, the odometer, formatting           *)
(***************************************************************************)
\* countIn with the coefficient left out of the product
countInOneMolecule(parsed, element, coefficient) ==
    IF parsed.isValid THEN CountOf(parsed.elements, element) ELSE 0

\* the atoms of `element` in coefficient molecules of a parsed formula
countIn(parsed, element, coefficient) ==
    IF parsed.isValid THEN CountOf(parsed.elements, element) * coefficient
    ELSE 0

RECURSIVE countElementInSide(_, _, _)
countElementInSide(compounds, element, cache) ==
    IF Len(compounds) = 0 THEN 0
    ELSE countIn(parseChemicalFormula(compounds[1].formula, cache), element,
                 compounds[1].coefficient)
         + countElementInSide(Tail(compounds), element, cache)

\* compounds.map((compound, i) => ({ ...compound, coefficient: coeffs[i] }))
withCoefficients(compounds, coeffs) ==
    [i \in 1..Len(compounds) |-> Compound(compounds[i].formula, coeffs[i])]

ElementBalance(element, reactantCount, productCount) ==
    [element |-> element, reactantCount |-> reactantCount,
     productCount |-> productCount, isBalanced |-> reactantCount = productCount]

getElementBalance(reactants, products, elements, cache) ==
    [i \in 1..Len(elements) |->
        ElementBalance(elements[i],
                       countElementInSide(reactants, elements[i], cache),
                       countElementInSide(products, elements[i], cache))]

isEquationBalanced(balance) ==
    \A i \in 1..Len(balance) : balance[i].isBalanced

\* getNextCombination mutates its argument and returns a boolean:
\* [coefficients: the array afterwards, ok: the value returned]
RECURSIVE nextCombinationFrom(_, _, _)
nextCombinationFrom(coefficients, maxCoeff, i) ==
    IF i < 1 THEN [coefficients |-> coefficients, ok |-> FALSE]
    ELSE IF coefficients[i] < maxCoeff
    THEN [coefficients |-> [coefficients EXCEPT ![i] = @ + 1], ok |-> TRUE]
    ELSE nextCombinationFrom([coefficients EXCEPT ![i] = 1], maxCoeff, i - 1)

\* the odometer run from the first slot instead of the last
RECURSIVE nextCombinationUp(_, _, _)
nextCombinationUp(coefficients, maxCoeff, i) ==
    IF i > Len(coefficients) THEN [coefficients |-> coefficients, ok |-> FALSE]
    ELSE IF coefficients[i] < maxCoeff
    THEN [coefficients |-> [coefficients EXCEPT ![i] = @ + 1], ok |-> TRUE]
    ELSE nextCombinationUp([coefficients EXCEPT ![i] = 1], maxCoeff, i + 1)

getNextCombinationFirstFastest(coefficients, maxCoeff) ==
    nextCombinationUp(coefficients, maxCoeff, 1)

\* the odometer reporting success when it has wrapped to all ones
getNextCombinationWrap(coefficients, maxCoeff) ==
    [coefficients |->
        nextCombinationFrom(coefficients, maxCoeff, Len(coefficients)).coefficients,
     ok |-> TRUE]

getNextCombination(coefficients, maxCoeff) ==
    nextCombinationFrom(coefficients, maxCoeff, Len(coefficients))

\* checkBalance refusing every vector that holds a coefficient 1
checkBalanceNoOnes(reactants, products, rCoeffs, pCoeffs, elements, cache) ==
    /\ \A i \in 1..Len(rCoeffs) : rCoeffs[i] > 1
    /\ \A i \in 1..Len(pCoeffs) : pCoeffs[i] > 1
    /\ \A i \in 1..Len(elements) :
          countElementInSide(withCoefficients(reactants, rCoeffs), elements[i], cache)
          = countElementInSide(withCoefficients(products, pCoeffs), elements[i], cache)

\* checkBalance comparing the first element only
checkBalanceFirstElement(reactants, products, rCoeffs, pCoeffs, elements, cache) ==
    \A i \in 1..(IF Len(elements) = 0 THEN 0 ELSE 1) :
        countElementInSide(withCoefficients(reactants, rCoeffs), elements[i], cache)
        = countElementInSide(withCoefficients(products, pCoeffs), elements[i], cache)

checkBalance(reactants, products, rCoeffs, pCoeffs, elements, cache) ==
    LET tempReactants == withCoefficients(reactants, rCoeffs)
        tempProducts == withCoefficients(products, pCoeffs)
    IN \A i \in 1..Len(elements) :
          countElementInSide(tempReactants, elements[i], cache)
          = countElementInSide(tempProducts, elements[i], cache)

\* coefficients.map(coeff => coeff / gcdValue)
divideAll(coefficients, gcdValue) ==
    [i \in 1..Len(coefficients) |-> coefficients[i] \div gcdValue]

simplifyCoefficients(coefficients) ==
    IF gcd(coefficients) > 1 THEN divideAll(coefficients, gcd(coefficients))
    ELSE coefficients

formatSide(compounds) ==
    join([i \in 1..Len(compounds) |->
            (IF compounds[i].coefficient = 1 THEN <<>>
             ELSE toString(compounds[i].coefficient)) \o compounds[i].formula],
         <<" ", "+", " ">>)

formatEquation(reactants, products) ==
    formatSide(reactants) \o <<" ", "→", " ">> \o formatSide(products)

createElementCountObject(balance) ==
    [i \in 1..Len(balance) |->
        [element |-> balance[i].element, left |-> balance[i].reactantCount,
         right |-> balance[i].productCount]]

(***************************************************************************)
(* equationBalancer.ts: class RobustFraction.  The constructor throws on a *)
(* zero denominator and divide on a zero numerator; these two conditions   *)
(* are the *Throws predicates, and the value operators give the value      *)
(* built when nothing is thrown.                                           *)
(***************************************************************************)
\* private gcd(a, b), called with non-negative arguments
RECURSIVE fractionGcd(_, _)
fractionGcd(a, b) == IF b = 0 THEN a ELSE fractionGcd(b, a % b)

constructorThrows(numerator, denominator) == denominator = 0

\* lines 413-415: g = gcd(|numerator|, |denominator|); g divides both, so
\* the two divisions are exact
lowestTerms(numerator, denominator) ==
    [num |-> numerator \div fractionGcd(Abs(numerator), Abs(denominator)),
     den |-> denominator \div fractionGcd(Abs(numerator), Abs(denominator))]

\* the constructor without the sign normalisation of lines 408-411
RobustFractionKeepSign(numerator, denominator) ==
    lowestTerms(numerator, denominator)

\* new RobustFraction(numerator, denominator), denominator # 0
RobustFraction(numerator, denominator) ==
    IF denominator < 0 THEN lowestTerms(-numerator, -denominator)
    ELSE lowestTerms(numerator, denominator)

add(this, other) ==
    RobustFraction(this.num * other.den + other.num * this.den,
                   this.den * other.den)

\* subtract without the cross multiplication of line 431
subtractNumerators(this, other) ==
    RobustFraction(this.num - other.num, this.den * other.den)

subtract(this, other) ==
    RobustFraction(this.num * other.den - other.num * this.den,
                   this.den * other.den)

multiply(this, other) ==
    RobustFraction(this.num * other.num, this.den * other.den)

divideThrows(this, other) == other.num = 0

\* divide, other.num # 0
divide(this, other) ==
    RobustFraction(this.num * other.den, this.den * other.num)

isZero(this) == this.num = 0

isOne(this) == this.num = this.den

abs(this) == RobustFraction(Abs(this.num), this.den)

negate(this) == RobustFraction(-this.num, this.den)

\* a.toDecimal() > b.toDecimal(); the quotients compared are of integers far
\* below 2^26, for which the comparison of the doubles is that of the fractions
toDecimalGreater(a, b) == a.num * b.den > b.num * a.den

(***************************************************************************)
(* equationBalancer.ts: the algebraic method                               *)
(***************************************************************************)
\* the loop of lines 856-868: every compound's formula parsed, in order
RECURSIVE parseAll(_, _)
parseAll(allCompounds, cache) ==
    IF Len(allCompounds) = 0 THEN <<>>
    ELSE <<parseChemicalFormula(allCompounds[1].formula, cache)>>
         \o parseAll(Tail(allCompounds), cache)

\* lines 872-890: one row per element, reactants counted positive and
\* products negative; compoundElements[i][element] || 0 is CountOf
matrixOver(eq, parsed, elements) ==
    [matrix |->
        [r \in 1..Len(elements) |->
            [i \in 1..Len(parsed) |->
                IF i <= Len(eq.reactants)
                THEN RobustFraction(CountOf(parsed[i].elements, elements[r]), 1)
                ELSE RobustFraction(-CountOf(parsed[i].elements, elements[r]), 1)]],
     elements |-> elements,
     compounds |-> [i \in 1..Len(parsed) |->
                      (eq.reactants \o eq.products)[i].formula],
     threw |-> FALSE]

\* lines 858-860 throw when a formula does not parse; line 870 sorts
matrixOfParsed(eq, parsed) ==
    IF \E i \in 1..Len(parsed) : ~parsed[i].isValid
    THEN [matrix |-> <<>>, elements |-> <<>>, compounds |-> <<>>, threw |-> TRUE]
    ELSE matrixOver(eq, parsed,
            SortStrings(UNION {symbolsOf(parsed[i]) : i \in 1..Len(parsed)}))

\* buildElementMatrix: [matrix, elements, compounds, threw]
buildElementMatrix(eq, cache) ==
    matrixOfParsed(eq, parseAll(eq.reactants \o eq.products, cache))

\* the pivot search of lines 908-916: [row, value], row = 0 for -1
RECURSIVE bestPivot(_, _, _, _)
bestPivot(workMatrix, col, row, best) ==
    IF row > Len(workMatrix) THEN best
    ELSE IF toDecimalGreater(abs(workMatrix[row][col]), abs(best.value))
    THEN bestPivot(workMatrix, col, row + 1,
                   [row |-> row, value |-> workMatrix[row][col]])
    ELSE bestPivot(workMatrix, col, row + 1, best)

\* lines 922-925: swap the pivot row into place
swapRows(workMatrix, a, b) ==
    [[workMatrix EXCEPT ![a] = workMatrix[b]] EXCEPT ![b] = workMatrix[a]]

\* lines 931-933: every entry of the row divided by the pivot value
RECURSIVE divideRow(_, _)
divideRow(row, pivotValue) ==
    IF Len(row) = 0 THEN <<>>
    ELSE <<divide(row[1], pivotValue)>> \o divideRow(Tail(row), pivotValue)

\* the pivot row left as it is
normalizeRowSkipped(workMatrix, currentRow, pivotValue) == workMatrix

\* lines 930-935: divide the pivot row by the pivot value
normalizeRow(workMatrix, currentRow, pivotValue) ==
    IF isOne(pivotValue) THEN workMatrix
    ELSE [workMatrix EXCEPT ![currentRow] =
            divideRow(workMatrix[currentRow], pivotValue)]

\* lines 940-943: row - factor * pivotRow, entry by entry
RECURSIVE subtractRow(_, _, _)
subtractRow(row, pivotRow, factor) ==
    IF Len(row) = 0 THEN <<>>
    ELSE <<subtract(row[1], multiply(pivotRow[1], factor))>>
         \o subtractRow(Tail(row), Tail(pivotRow), factor)

\* lines 937-946: eliminate the column from every other row, rows in order
RECURSIVE eliminateRows(_, _, _, _, _)
eliminateRows(workMatrix, currentRow, col, row, trace) ==
    IF row > Len(workMatrix) THEN [matrix |-> workMatrix, steps |-> trace]
    ELSE IF row # currentRow /\ ~isZero(workMatrix[row][col])
    THEN LET factor == workMatrix[row][col]
             newRow == subtractRow(workMatrix[row], workMatrix[currentRow], factor)
         IN eliminateRows([workMatrix EXCEPT ![row] = newRow], currentRow, col,
                          row + 1,
                          Append(trace, <<"F", row, "-", factor, "x F", currentRow>>))
    ELSE eliminateRows(workMatrix, currentRow, col, row + 1, trace)

RECURSIVE eliminationLoop(_, _, _, _, _)

\* line 948: currentRow++, after the rows were eliminated
pivotEliminated(e, col, currentRow, pivotCols) ==
    eliminationLoop(e.matrix, col + 1, currentRow + 1,
                    Append(pivotCols, col - 1), e.steps)

\* lines 927-946: the pivot row is in place
pivotSwapped(swapped, col, currentRow, pivotCols, trace) ==
    pivotEliminated(
        eliminateRows(normalizeRow(swapped, currentRow, swapped[currentRow][col]),
                      currentRow, col, 1,
                      IF isOne(swapped[currentRow][col]) THEN trace
                      ELSE Append(trace, <<"F", currentRow, "/",
                                           swapped[currentRow][col]>>)),
        col, currentRow, pivotCols)

\* lines 918-925: no pivot in this column, or the swap
pivotFound(workMatrix, col, currentRow, pivotCols, trace, best) ==
    IF best.row = 0 \/ isZero(best.value)
    THEN eliminationLoop(workMatrix, col + 1, currentRow, pivotCols, trace)
    ELSE pivotSwapped(IF best.row # currentRow
                      THEN swapRows(workMatrix, currentRow, best.row)
                      ELSE workMatrix,
                      col, currentRow, pivotCols, trace)

\* the for loop over the columns; currentRow and col count from 1 here
eliminationLoop(workMatrix, col, currentRow, pivotCols, trace) ==
    IF ~(col <= Len(workMatrix[1]) /\ currentRow <= Len(workMatrix))
    THEN [reducedMatrix |-> workMatrix, rank |-> Len(pivotCols),
          pivotCols |-> pivotCols, steps |-> trace, threw |-> FALSE]
    ELSE pivotFound(workMatrix, col, currentRow, pivotCols, trace,
                    bestPivot(workMatrix, col, currentRow,
                              [row |-> 0, value |-> RobustFraction(0, 1)]))

\* gaussianEliminationRobust(matrix, steps); pivotCols holds the column
\* indices from 0, as in the source.  matrix[0].length throws on an empty
\* matrix.
gaussianEliminationRobust(m, trace) ==
    IF Len(m) = 0
    THEN [reducedMatrix |-> <<>>, rank |-> 0, pivotCols |-> <<>>,
          steps |-> trace, threw |-> TRUE]
    ELSE eliminationLoop(m, 1, 1, <<>>, trace)

\* lines 983-986: the sum over j > pivotCol of reducedMatrix[i][j] * solution[j]
RECURSIVE rowSum(_, _, _, _)
rowSum(row, sol, j, sum) ==
    IF j > Len(sol) THEN sum
    ELSE rowSum(row, sol, j + 1, add(sum, multiply(row[j], sol[j])))

RECURSIVE backSubstitute(_, _, _, _, _, _)

\* lines 988-990: solution[pivotCol] = sum.negate(), and the step pushed
setPivot(reducedMatrix, pivotCols, freeVarIndex, i, sol, trace, value) ==
    backSubstitute(reducedMatrix, pivotCols, freeVarIndex, i - 1,
                   [sol EXCEPT ![pivotCols[i + 1] + 1] = value],
                   Append(trace, <<"x", pivotCols[i + 1] + 1, "=", value>>))

\* the loop of lines 977-991, i from rank - 1 down to 0: [solution, steps]
backSubstitute(reducedMatrix, pivotCols, freeVarIndex, i, sol, trace) ==
    IF i < 0 THEN [solution |-> sol, steps |-> trace]
    ELSE IF pivotCols[i + 1] = freeVarIndex
    THEN backSubstitute(reducedMatrix, pivotCols, freeVarIndex, i - 1, sol, trace)
    ELSE setPivot(reducedMatrix, pivotCols, freeVarIndex, i, sol, trace,
                  negate(rowSum(reducedMatrix[i + 1], sol, pivotCols[i + 1] + 2,
                                RobustFraction(0, 1))))

\* lines 964-971: the variables that are no pivot, indices from 0
freeVarsOf(pivotCols, numVars) ==
    {i \in 0..(numVars - 1) : i \notin Range(pivotCols)}

\* line 973 with the last free variable taken instead of the first
lastFreeVar(freeVars, numVars) ==
    IF freeVars # {} THEN CHOOSE i \in freeVars : \A k \in freeVars : k <= i
    ELSE numVars - 1

\* line 973: freeVars.length > 0 ? freeVars[0] : numVars - 1
firstFreeVar(freeVars, numVars) ==
    IF freeVars # {} THEN CHOOSE i \in freeVars : \A k \in freeVars : i <= k
    ELSE numVars - 1

\* lines 975-976: zeros, and 1 at the free variable
initialSolution(numVars, freeVarIndex) ==
    [k \in 1..numVars |->
        IF k = freeVarIndex + 1 THEN RobustFraction(1, 1)
        ELSE RobustFraction(0, 1)]

nullSpaceFrom(reducedMatrix, rank, pivotCols, numVars, trace, freeVarIndex) ==
    backSubstitute(reducedMatrix, pivotCols, freeVarIndex, rank - 1,
                   initialSolution(numVars, freeVarIndex), trace)

\* findNullSpace: [solution, steps]
findNullSpace(reducedMatrix, rank, pivotCols, numVars, trace) ==
    nullSpaceFrom(reducedMatrix, rank, pivotCols, numVars, trace,
                  firstFreeVar(freeVarsOf(pivotCols, numVars), numVars))

\* denominators.reduce((a, b) => lcm([a, b]), 1)
RECURSIVE lcmOfDenominators(_, _)
lcmOfDenominators(fractions, acc) ==
    IF Len(fractions) = 0 THEN acc
    ELSE lcmOfDenominators(Tail(fractions), lcm(<<acc, fractions[1].den>>))

\* integers.map(Math.abs).filter(x => x > 0)
RECURSIVE positiveAbs(_)
positiveAbs(integers) ==
    IF Len(integers) = 0 THEN <<>>
    ELSE (IF Abs(integers[1]) > 0 THEN <<Abs(integers[1])>> ELSE <<>>)
         \o positiveAbs(Tail(integers))

\* fractionSolution.map(f => f.negate())
RECURSIVE negateAll(_)
negateAll(fractions) ==
    IF Len(fractions) = 0 THEN <<>>
    ELSE <<negate(fractions[1])>> \o negateAll(Tail(fractions))

\* fractionSolution.map(f => (f.num * lcmValue) / f.den): every f.den divides
\* lcmValue, so the division is exact
RECURSIVE integersOf(_, _)
integersOf(fractions, lcmValue) ==
    IF Len(fractions) = 0 THEN <<>>
    ELSE <<(fractions[1].num * lcmValue) \div fractions[1].den>>
         \o integersOf(Tail(fractions), lcmValue)

\* integers.map(x => Math.round(Math.abs(x) / gcdValue)): gcdValue divides
\* every |x|, so Math.round changes nothing
RECURSIVE roundAll(_, _)
roundAll(integers, gcdValue) ==
    IF Len(integers) = 0 THEN <<>>
    ELSE <<Abs(integers[1]) \div gcdValue>> \o roundAll(Tail(integers), gcdValue)

\* lines 1012-1019, gcdValue known
normalizeBy(integers, gcdValue, trace) ==
    [integers |-> roundAll(integers, gcdValue),
     steps |-> IF gcdValue > 1
               THEN Append(trace, <<"Simplificando por GCD", gcdValue>>)
               ELSE trace]

\* line 1010: positiveIntegers.length > 0 ? gcd(positiveIntegers) : 1
gcdOfPositive(positiveIntegers) ==
    IF Len(positiveIntegers) > 0 THEN gcd(positiveIntegers) ELSE 1

\* the fractions cut to integers without the multiplication by the LCM
normalizeSignedNoLcm(fractions, trace) ==
    normalizeBy(integersOf(fractions, 1), 1, trace)

\* lines 1004-1010, the signs settled
normalizeSigned(fractions, trace) ==
    normalizeBy(integersOf(fractions, lcmOfDenominators(fractions, 1)),
                gcdOfPositive(positiveAbs(
                    integersOf(fractions, lcmOfDenominators(fractions, 1)))),
                trace)

\* normalizeToPositiveIntegers: [integers, steps]
normalizeToPositiveIntegers(fractions, trace) ==
    IF \A i \in 1..Len(fractions) : fractions[i].num <= 0
    THEN normalizeSigned(negateAll(fractions), trace)
    ELSE normalizeSigned(fractions, trace)

\* lines 1033-1051: one side's count of `element` with coefficients[offset + i]
RECURSIVE weightedCount(_, _, _, _, _, _)
weightedCount(compounds, coefficients, offset, element, i, cache) ==
    IF i > Len(compounds) THEN 0
    ELSE countIn(parseChemicalFormula(compounds[i].formula, cache), element,
                 coefficients[offset + i])
         + weightedCount(compounds, coefficients, offset, element, i + 1, cache)

RECURSIVE validateSolutionExhaustive(_, _, _, _, _)

\* lines 1053-1057: the two counts of one element compared
validateElement(eq, coefficients, elements, trace, cache, reactantCount, productCount) ==
    IF reactantCount # productCount
    THEN [ok |-> FALSE, steps |-> trace]
    ELSE validateSolutionExhaustive(eq, coefficients, Tail(elements),
            Append(trace, <<"ok", elements[1], reactantCount, productCount>>),
            cache)

\* validateSolutionExhaustive: [ok, steps]; it stops at the first mismatch
validateSolutionExhaustive(eq, coefficients, elements, trace, cache) ==
    IF Len(elements) = 0 THEN [ok |-> TRUE, steps |-> trace]
    ELSE validateElement(eq, coefficients, elements, trace, cache,
            weightedCount(eq.reactants, coefficients, 0, elements[1], 1, cache),
            weightedCount(eq.products, coefficients, Len(eq.reactants),
                          elements[1], 1, cache))

(***************************************************************************)
(* The calls.  A call starts at pc = "call" and ends at pc = "done" (for   *)
(* parseChemicalFormula, "returned").  Every call reads and may fill the   *)
(* element cache; nothing else outlives a call.                            *)
(***************************************************************************)
maxCoefficient == 15
DEFAULT_MAX_ITERATIONS == 10000
CANNOT_BALANCE == "No se puede balancear la ecuacion"

NoResult == <<>>
NoEquation == [reactants |-> <<>>, products |-> <<>>]

Step(stepNumber, description, eqText, elementCount) ==
    [stepNumber |-> stepNumber, description |-> description,
     equation |-> eqText, elementCount |-> elementCount]

\* steps.push({ stepNumber: stepCounter++, ... })
push(trace, description, eqText, elementCount) ==
    Append(trace, Step(Len(trace) + 1, description, eqText, elementCount))

BalanceResult(original, reactants, products, text, method, trace, isValid, error) ==
    [originalEquation |-> original, balancedReactants |-> reactants,
     balancedProducts |-> products, balancedEquation |-> text,
     method |-> method, steps |-> trace, isValid |-> isValid,
     error |-> error, threw |-> FALSE]

\* an exception leaving the entry point
Exception(error) ==
    [originalEquation |-> NoEquation, balancedReactants |-> <<>>,
     balancedProducts |-> <<>>, balancedEquation |-> <<>>, method |-> "",
     steps |-> <<>>, isValid |-> FALSE, error |-> error, threw |-> TRUE]

\* createErrorResult
createErrorResult(eq, method, trace, error) ==
    BalanceResult(eq, eq.reactants, eq.products, <<>>, method,
        [i \in 1..Len(trace) |-> Step(i, trace[i], <<>>, <<>>)], FALSE, error)

ones(n) == [i \in 1..n |-> 1]

Coefficients(compounds) == [i \in 1..Len(compounds) |-> compounds[i].coefficient]

FormulaLocalsReset ==
    /\ formulaResult' = NoResult
    /\ normalized' = <<>>
    /\ normalizedResult' = NoResult

BalanceLocalsReset ==
    /\ allElements' = <<>>
    /\ reactantCoeffs' = <<>>
    /\ productCoeffs' = <<>>
    /\ iteration' = 0
    /\ tested' = 0
    /\ steps' = <<>>
    /\ matrix' = <<>>
    /\ reduced' = <<>>
    /\ fractionSolution' = <<>>
    /\ integerCoeffs' = <<>>
    /\ result' = NoResult

\* a lookup in the element map fills the cache
lookedUp(looked) ==
    loadedElementMap' = IF looked THEN cacheAfterLookup(loadedElementMap)
                        ELSE loadedElementMap

\* some formula of the compounds reaches an element lookup when parsed
anyLooked(compounds, cache) ==
    \E i \in 1..Len(compounds) :
        parseChemicalFormula(compounds[i].formula, cache).looked

\* the same for a loop that stops at the first formula that does not parse
RECURSIVE lookedUntilInvalid(_, _)
lookedUntilInvalid(compounds, cache) ==
    IF Len(compounds) = 0 THEN FALSE
    ELSE IF ~parseChemicalFormula(compounds[1].formula, cache).isValid
    THEN parseChemicalFormula(compounds[1].formula, cache).looked
    ELSE parseChemicalFormula(compounds[1].formula, cache).looked
         \/ lookedUntilInvalid(Tail(compounds), cache)

\* parseChemicalFormula(formula)
ParseFormula ==
    /\ entry = "parseChemicalFormula"
    /\ pc = "call"
    /\ formulaResult' = parseChemicalFormula(formula, loadedElementMap)
    /\ lookedUp(formulaResult'.looked)
    /\ pc' = "returned"
    /\ UNCHANGED <<entry, history, formula, normalized, normalizedResult,
                   balanceVars, fractionVars>>

\* normalizeFormula(formula)
NormalizeFormula ==
    /\ entry = "parseChemicalFormula"
    /\ pc = "returned"
    /\ normalized' = normalizeFormula(formula)
    /\ pc' = "normalized"
    /\ UNCHANGED <<loadedElementMap, entry, history, formula, formulaResult,
                   normalizedResult, balanceVars, fractionVars>>

\* parseChemicalFormula(normalizeFormula(formula))
ParseNormalized ==
    /\ entry = "parseChemicalFormula"
    /\ pc = "normalized"
    /\ normalizedResult' = parseChemicalFormula(normalized, loadedElementMap)
    /\ lookedUp(normalizedResult'.looked)
    /\ pc' = "done"
    /\ UNCHANGED <<entry, history, formula, formulaResult, normalized,
                   balanceVars, fractionVars>>

\* const { equation, method = 'trial-and-error' } = input
methodOf(in) == IF in.method = "undefined" THEN "trial-and-error" ELSE in.method

\* lines 1197-1219: switch (method)
Dispatch(chemicalEquation, method) ==
    /\ equation' = chemicalEquation
    /\ IF method = "trial-and-error" THEN pc' = "trial" /\ UNCHANGED result
       ELSE IF method = "algebraic" THEN pc' = "algebraic" /\ UNCHANGED result
       ELSE /\ pc' = "done"
            /\ result' = BalanceResult(chemicalEquation, <<>>, <<>>, <<>>, method,
                            <<>>, FALSE, <<"Metodo de balance no soportado", method>>)

\* lines 1182-1195: const parseResult = parseChemicalEquation(equation)
Parsed(parseResult, method) ==
    /\ lookedUp(parseResult.looked)
    /\ IF parseResult.threw
       THEN /\ result' = Exception(parseResult.error)
            /\ pc' = "done"
            /\ UNCHANGED equation
       ELSE IF ~parseResult.isValid
       THEN /\ result' = BalanceResult(NoEquation, <<>>, <<>>, <<>>, method, <<>>,
                                       FALSE, parseResult.error)
            /\ pc' = "done"
            /\ UNCHANGED equation
       ELSE Dispatch([reactants |-> parseResult.reactants,
                      products |-> parseResult.products], method)

\* balanceChemicalEquation: parse, then dispatch on method
ParseEquation ==
    /\ entry = "balanceChemicalEquation"
    /\ pc = "call"
    /\ Parsed(parseChemicalEquation(input.equation, loadedElementMap),
              methodOf(input))
    /\ UNCHANGED <<entry, history, formulaVars, input, maxIterations, searchVars,
                   steps, algebraVars, fractionVars>>

\* lines 724-743: the equation balances with every coefficient 1
AlreadyBalanced(text, trace) ==
    /\ steps' = trace
    /\ result' = BalanceResult(equation, equation.reactants, equation.products,
                               text, "trial-and-error", trace, TRUE, <<>>)
    /\ pc' = "done"
    /\ UNCHANGED <<reactantCoeffs, productCoeffs>>

\* lines 745-759: the search starts from every coefficient 1
StartSearch(trace) ==
    /\ reactantCoeffs' = ones(Len(equation.reactants))
    /\ productCoeffs' = ones(Len(equation.products))
    /\ steps' = push(trace, <<"Iniciando tanteo sistematico", maxIterations>>,
                     <<>>, <<>>)
    /\ pc' = "search"
    /\ UNCHANGED result

\* lines 710-722: the two steps pushed before anything is tested
firstSteps(text, elements) ==
    push(push(<<>>, <<"Ecuacion inicial sin balancear">>, text, <<>>),
         <<"Elementos presentes", elements>>, <<>>, <<>>)

TrialStarted(elements, text) ==
    /\ allElements' = elements
    /\ IF checkBalance(equation.reactants, equation.products,
                       ones(Len(equation.reactants)), ones(Len(equation.products)),
                       elements, loadedElementMap)
       THEN AlreadyBalanced(text,
                push(firstSteps(text, elements),
                     <<"La ecuacion ya esta balanceada con coeficientes 1">>,
                     text, <<>>))
       ELSE StartSearch(firstSteps(text, elements))

\* balanceByTrialAndError, lines 707-759: the trace so far, the test with
\* every coefficient 1, the start of the search
TrialStart ==
    /\ pc = "trial"
    /\ TrialStarted(getAllElements(equation.reactants \o equation.products,
                                   loadedElementMap),
                    formatEquation(equation.reactants, equation.products))
    /\ iteration' = 0
    /\ tested' = 0
    /\ lookedUp(anyLooked(equation.reactants \o equation.products,
                          loadedElementMap))
    /\ UNCHANGED <<entry, history, formulaVars, input,
                   maxIterations, equation, algebraVars, fractionVars>>

\* lines 827-842: the search ended without a solution
NotFoundWith(trace) ==
    /\ steps' = trace
    /\ result' = BalanceResult(equation, equation.reactants, equation.products,
                     <<>>, "trial-and-error", trace, FALSE,
                     <<CANNOT_BALANCE, iteration>>)
    /\ pc' = "done"

NotFound ==
    NotFoundWith(push(steps, <<"No se encontro balance despues de", iteration>>,
                      <<>>, <<>>))

\* lines 799-807: the result returned
FoundResult(balancedReactants, balancedProducts, text, trace) ==
    /\ steps' = trace
    /\ result' = BalanceResult(equation, balancedReactants, balancedProducts,
                     text, "trial-and-error", trace, TRUE, <<>>)
    /\ pc' = "done"

\* lines 783-797: the steps pushed; simplified !== allCoeffs exactly when
\* gcdValue > 1, simplifyCoefficients returning its argument otherwise
FoundSteps(balancedReactants, balancedProducts, text, gcdValue) ==
    FoundResult(balancedReactants, balancedProducts, text,
        IF gcdValue > 1
        THEN push(push(steps, <<"Combinacion encontrada en iteracion", iteration + 1>>,
                       text,
                       createElementCountObject(
                           getElementBalance(balancedReactants, balancedProducts,
                                             allElements, loadedElementMap))),
                  <<"Coeficientes simplificados por MCD", gcdValue>>, text, <<>>)
        ELSE push(steps, <<"Combinacion encontrada en iteracion", iteration + 1>>,
                  text,
                  createElementCountObject(
                      getElementBalance(balancedReactants, balancedProducts,
                                        allElements, loadedElementMap))))

\* lines 771-779: the compounds with the simplified coefficients
FoundBalanced(balancedReactants, balancedProducts) ==
    FoundSteps(balancedReactants, balancedProducts,
               formatEquation(balancedReactants, balancedProducts),
               gcd(reactantCoeffs \o productCoeffs))

\* lines 765-769: const simplified = simplifyCoefficients(allCoeffs)
FoundSimplified(simplified) ==
    FoundBalanced(
        withCoefficients(equation.reactants,
                         SubSeq(simplified, 1, Len(equation.reactants))),
        withCoefficients(equation.products,
                         SubSeq(simplified, Len(equation.reactants) + 1,
                                Len(simplified))))

\* lines 762-807: the vector under test balances the equation
Found == FoundSimplified(simplifyCoefficients(reactantCoeffs \o productCoeffs))

\* lines 810-825: the next vector, or the break
Advance(nextProducts, nextReactants) ==
    IF ~nextProducts.ok /\ ~nextReactants.ok
    THEN /\ productCoeffs' = ones(Len(productCoeffs))
         /\ reactantCoeffs' = nextReactants.coefficients
         /\ UNCHANGED iteration
         /\ NotFound
    ELSE /\ productCoeffs' = IF nextProducts.ok THEN nextProducts.coefficients
                             ELSE ones(Len(productCoeffs))
         /\ reactantCoeffs' = IF nextProducts.ok THEN reactantCoeffs
                              ELSE nextReactants.coefficients
         /\ iteration' = iteration + 1
         /\ steps' = IF (iteration + 1) % 1000 = 0
                     THEN push(steps, <<"Progreso", iteration + 1>>, <<>>, <<>>)
                     ELSE steps
         /\ UNCHANGED <<pc, result>>

\* one turn of the while loop of lines 761-825, its test included
TrialStep ==
    /\ pc = "search"
    /\ IF ~(iteration < maxIterations)
       THEN /\ NotFound
            /\ UNCHANGED <<reactantCoeffs, productCoeffs, iteration, tested>>
       ELSE /\ tested' = tested + 1
            /\ IF checkBalance(equation.reactants, equation.products,
                               reactantCoeffs, productCoeffs, allElements,
                               loadedElementMap)
               THEN /\ Found
                    /\ UNCHANGED <<reactantCoeffs, productCoeffs, iteration>>
               ELSE Advance(getNextCombination(productCoeffs, maxCoefficient),
                            getNextCombination(reactantCoeffs, maxCoefficient))
    /\ UNCHANGED <<loadedElementMap, entry, history, formulaVars, input,
                   maxIterations, equation, allElements, algebraVars,
                   fractionVars>>

\* the catch of lines 1120-1122
AlgebraicCaught ==
    /\ result' = createErrorResult(equation, "algebraic", steps,
                                   <<"Error en metodo algebraico">>)
    /\ pc' = "done"

Built(built) ==
    IF built.threw
    THEN AlgebraicCaught /\ UNCHANGED matrix
    ELSE matrix' = built /\ pc' = "eliminate" /\ UNCHANGED result

\* line 1070: buildElementMatrix(equation)
AlgBuildMatrix ==
    /\ pc = "algebraic"
    /\ Built(buildElementMatrix(equation, loadedElementMap))
    /\ steps' = <<>>
    /\ lookedUp(lookedUntilInvalid(equation.reactants \o equation.products,
                                   loadedElementMap))
    /\ UNCHANGED <<entry, history, formulaVars, input,
                   maxIterations, equation, searchVars, reduced,
                   fractionSolution, integerCoeffs, fractionVars>>

\* the method going on to findNullSpace whatever the rank
EliminatedNoRankTest(eliminated, numVars) ==
    IF eliminated.threw
    THEN AlgebraicCaught /\ UNCHANGED <<reduced, steps>>
    ELSE /\ reduced' = eliminated
         /\ steps' = eliminated.steps
         /\ pc' = "nullspace"
         /\ UNCHANGED result

Eliminated(eliminated, numVars) ==
    IF eliminated.threw
    THEN AlgebraicCaught /\ UNCHANGED <<reduced, steps>>
    ELSE /\ reduced' = eliminated
         /\ steps' = eliminated.steps
         /\ IF eliminated.rank = numVars
            THEN /\ result' = createErrorResult(equation, "algebraic",
                                  eliminated.steps, <<"Sistema sobredeterminado">>)
                 /\ pc' = "done"
            ELSE pc' = "nullspace" /\ UNCHANGED result

\* lines 1072-1077: gaussianEliminationRobust, then the rank test
AlgEliminate ==
    /\ pc = "eliminate"
    /\ Eliminated(gaussianEliminationRobust(matrix.matrix, steps),
                  Len(matrix.compounds))
    /\ UNCHANGED <<loadedElementMap, entry, history, formulaVars, input,
                   maxIterations, equation, searchVars, matrix,
                   fractionSolution, integerCoeffs, fractionVars>>

NullSpaceFound(found) ==
    /\ fractionSolution' = found.solution
    /\ steps' = found.steps

\* line 1079: findNullSpace
AlgFindNullSpace ==
    /\ pc = "nullspace"
    /\ NullSpaceFound(findNullSpace(reduced.reducedMatrix, reduced.rank,
                                    reduced.pivotCols, Len(matrix.compounds), steps))
    /\ pc' = "normalize"
    /\ UNCHANGED <<loadedElementMap, entry, history, formulaVars, input,
                   maxIterations, equation, searchVars, matrix, reduced,
                   integerCoeffs, result, fractionVars>>

Normalized(normal) ==
    /\ integerCoeffs' = normal.integers
    /\ steps' = normal.steps

\* line 1081: normalizeToPositiveIntegers
AlgNormalize ==
    /\ pc = "normalize"
    /\ Normalized(normalizeToPositiveIntegers(fractionSolution, steps))
    /\ pc' = "validate"
    /\ UNCHANGED <<loadedElementMap, entry, history, formulaVars, input,
                   maxIterations, equation, searchVars, matrix, reduced,
                   fractionSolution, result, fractionVars>>

\* lines 1101-1107: the steps of the result, the last one carrying the equation
algebraicSteps(allSteps, text) ==
    [i \in 1..Len(allSteps) |->
        Step(i, allSteps[i], IF i = Len(allSteps) THEN text ELSE <<>>, <<>>)]

\* lines 1089-1118: the result of a validated solution
algebraicResult(balancedReactants, balancedProducts, allSteps) ==
    BalanceResult(equation, balancedReactants, balancedProducts,
        formatEquation(balancedReactants, balancedProducts), "algebraic",
        algebraicSteps(allSteps, formatEquation(balancedReactants, balancedProducts)),
        TRUE, <<>>)

Validated(validation) ==
    /\ steps' = validation.steps
    /\ result' =
         IF ~validation.ok
         THEN createErrorResult(equation, "algebraic", validation.steps,
                                <<"La solucion no balancea correctamente">>)
         ELSE algebraicResult(
                withCoefficients(equation.reactants,
                    SubSeq(integerCoeffs, 1, Len(equation.reactants))),
                withCoefficients(equation.products,
                    SubSeq(integerCoeffs, Len(equation.reactants) + 1,
                           Len(integerCoeffs))),
                validation.steps)

\* lines 1083-1118: validateSolutionExhaustive, then the result
AlgValidate ==
    /\ pc = "validate"
    /\ Validated(validateSolutionExhaustive(equation, integerCoeffs,
                     matrix.elements, steps, loadedElementMap))
    /\ pc' = "done"
    /\ UNCHANGED <<loadedElementMap, entry, history, formulaVars, input,
                   maxIterations, equation, searchVars, matrix, reduced,
                   fractionSolution, integerCoeffs, fractionVars>>

(***************************************************************************)
(* The inputs                                                              *)
(***************************************************************************)
MaxInputCoeff == 2

Skeleton(reactants, products) == [reactants |-> reactants, products |-> products]

H2_O2_H2O == Skeleton(<< <<"H", "2">>, <<"O", "2">> >>, << <<"H", "2", "O">> >>)
Fe_O2_Fe2O3 ==
    Skeleton(<< <<"F", "e">>, <<"O", "2">> >>, << <<"F", "e", "2", "O", "3">> >>)
C2H6_O2_CO2_H2O ==
    Skeleton(<< <<"C", "2", "H", "6">>, <<"O", "2">> >>,
             << <<"C", "O", "2">>, <<"H", "2", "O">> >>)
C_O2_CO2 == Skeleton(<< <<"C">>, <<"O", "2">> >>, << <<"C", "O", "2">> >>)
O3_O2_O == Skeleton(<< <<"O", "3">> >>, << <<"O", "2">>, <<"O">> >>)
H2O_H2O_H2 == Skeleton(<< <<"H", "2", "O">> >>, << <<"H", "2", "O">>, <<"H", "2">> >>)
H2_O2 == Skeleton(<< <<"H", "2">> >>, << <<"O", "2">> >>)
O2_O3_O == Skeleton(<< <<"O", "2">>, <<"O", "3">> >>, << <<"O">> >>)
C_O2_CO_CO2 ==
    Skeleton(<< <<"C">>, <<"O", "2">> >>, << <<"C", "O">>, <<"C", "O", "2">> >>)

\* formulas with a leading group, a nested group, whitespace inside
NH4_2SO4_NH3_H2SO4 ==
    Skeleton(<< <<"(", "N", "H", "4", ")", "2", "S", "O", "4">> >>,
             << <<"N", "H", "3">>, <<"H", "2", "S", "O", "4">> >>)
CaOH2_CaO_H2O ==
    Skeleton(<< <<"C", "a", "(", "(", "O", "H", ")", "2", ")">> >>,
             << <<"C", "a", "O">>, <<"H", "2", "O">> >>)
H2_O_H2_O2 ==
    Skeleton(<< <<"H", "2", " ", "O">> >>, << <<"H", "2">>, <<"O", "2">> >>)

\* the rows of H and of O are the same
H2O2_HO == Skeleton(<< <<"H", "2", "O", "2">> >>, << <<"H", "O">> >>)

Skeletons ==
    {H2_O2_H2O, Fe_O2_Fe2O3, C2H6_O2_CO2_H2O, C_O2_CO2, O3_O2_O, H2O_H2O_H2,
     H2_O2, O2_O3_O, C_O2_CO_CO2, NH4_2SO4_NH3_H2SO4, CaOH2_CaO_H2O, H2_O_H2_O2}

\* the text of a side: a coefficient of 1 is not written
sideText(formulas, coeffs, offset) ==
    join([i \in 1..Len(formulas) |->
            IF coeffs[offset + i] = 1 THEN formulas[i]
            ELSE toString(coeffs[offset + i]) \o formulas[i]],
         <<" ", "+", " ">>)

equationText(skeleton, coeffs) ==
    sideText(skeleton.reactants, coeffs, 0) \o <<" ", "=", " ">>
        \o sideText(skeleton.products, coeffs, Len(skeleton.reactants))

size(skeleton) == Len(skeleton.reactants) + Len(skeleton.products)

plain(skeleton) == equationText(skeleton, ones(size(skeleton)))

\* every way of writing coefficients 1..MaxInputCoeff into the skeleton
written(skeleton) ==
    {equationText(skeleton, coeffs) :
        coeffs \in [1..size(skeleton) -> 1..MaxInputCoeff]}

Malformed ==
    { <<>>,
      <<"H", "2", " ", "+", " ", "O", "2">>,
      <<"X", "x", " ", "=", " ", "O", "2">>,
      <<"H", "2", " ", "=", " ", "=", " ", "O", "2">>,
      <<"0", "H", "2", " ", "=", " ", "H", "2">>,
      <<"H", "2", "(", " ", "=", " ", "H", "2">> }

\* up to three terms with an arrow token or nothing between them
ArrowTerms == {<<>>, <<"O">>, <<"O", "2">>}

Arrows == {ARROW_GLYPH, ARROW_ASCII, ARROW_EQUALS}

ArrowEquations ==
    {l \o a \o m \o b \o r :
        l \in ArrowTerms, m \in ArrowTerms, r \in ArrowTerms,
        a \in Arrows \cup {<<>>}, b \in Arrows \cup {<<>>}}

\* O + O = O2 with a coefficient text, possibly empty, before each term
CoefficientTexts ==
    {<<>>, <<"0">>, <<"1">>, <<"0", "0", "7">>, <<"1", "0", "0">>,
     <<"1", "0", "1">>}

coefficientEquation(texts) ==
    texts[1] \o <<"O", " ", "+", " ">> \o texts[2] \o <<"O", " ", "=", " ">>
        \o texts[3] \o <<"O", "2">>

CoefficientEquations ==
    {coefficientEquation(texts) : texts \in [1..3 -> CoefficientTexts]}

\* one term that the Formula Parser rejects, the other terms being right
BadFormulaEquations ==
    { <<"X", "x", " ", "+", " ", "O", " ", "=", " ", "O", "2">>,
      <<"O", " ", "+", " ", "X", "x", " ", "=", " ", "O", "2">>,
      <<"O", " ", "+", " ", "O", " ", "=", " ", "O", "2", "(">>,
      <<"O", " ", "+", " ", "O", " ", "=", " ", "O", "2", " ", "+", " ", "o">>,
      <<"O", " ", "+", " ", "O", " ", "=", " ", "O", "0">> }

Equations ==
    ArrowEquations \cup CoefficientEquations \cup BadFormulaEquations
        \cup written(H2_O2_H2O) \cup written(C_O2_CO2) \cup written(O3_O2_O)
        \cup {plain(Fe_O2_Fe2O3), plain(C2H6_O2_CO2_H2O), plain(H2O_H2O_H2),
              plain(H2_O2), plain(O2_O3_O), plain(C_O2_CO_CO2),
              plain(NH4_2SO4_NH3_H2SO4), plain(CaOH2_CaO_H2O),
              plain(H2_O_H2_O2), plain(H2O2_HO)}
        \cup Malformed

Inputs ==
    {[equation |-> e, method |-> m] :
        e \in Equations, m \in {"trial-and-error", "algebraic"}}
    \cup {[equation |-> plain(C_O2_CO2), method |-> m] :
            m \in {"undefined", "gravimetric"}}

FormulaIdle ==
    /\ formula = <<>>
    /\ formulaResult = NoResult
    /\ normalized = <<>>
    /\ normalizedResult = NoResult

BalanceIdle ==
    /\ equation = NoEquation
    /\ allElements = <<>>
    /\ reactantCoeffs = <<>>
    /\ productCoeffs = <<>>
    /\ iteration = 0
    /\ tested = 0
    /\ steps = <<>>
    /\ matrix = <<>>
    /\ reduced = <<>>
    /\ fractionSolution = <<>>
    /\ integerCoeffs = <<>>
    /\ result = NoResult

FractionIdle ==
    /\ fracArgs = <<0, 1>>
    /\ fracA = [num |-> 0, den |-> 1]
    /\ fracB = [num |-> 0, den |-> 1]
    /\ fracR = [num |-> 0, den |-> 1]
    /\ fracThrew = FALSE

\* one call of balanceChemicalEquation in a freshly loaded module
Init ==
    /\ loadedElementMap = <<>>
    /\ entry = "balanceChemicalEquation"
    /\ pc = "call"
    /\ history = <<>>
    /\ input \in Inputs
    /\ maxIterations = DEFAULT_MAX_ITERATIONS
    /\ FormulaIdle
    /\ BalanceIdle
    /\ FractionIdle

Next ==
    \/ ParseEquation
    \/ TrialStart
    \/ TrialStep
    \/ AlgBuildMatrix
    \/ AlgEliminate
    \/ AlgFindNullSpace
    \/ AlgNormalize
    \/ AlgValidate

Spec == Init /\ [][Next]_vars

(***************************************************************************)
(* One call of parseChemicalFormula, followed by normalizeFormula and the   *)
(* parse of what it returned                                               *)
(***************************************************************************)
MaxFormulaLen == 4

Alphabet == {"C", "O", "a", "2", "0", " ", "(", ")"}

\* the strings over Alphabet of at most n characters
RECURSIVE Strings(_)
Strings(n) ==
    IF n = 0 THEN {<<>>}
    ELSE Strings(n - 1) \cup {Append(str, c) : str \in Strings(n - 1), c \in Alphabet}

Ca_OH_2 == <<"C", "a", "(", "O", "H", ")", "2">>
Cu_NO3_2 == <<"C", "u", "(", "N", "O", "3", ")", "2">>
\* ((C2)2O)3C
Nested == <<"(", "(", "C", "2", ")", "2", "O", ")", "3", "C">>
\* " Ca ( O H ) 2 "
Spaced == <<" ", "C", "a", " ", "(", " ", "O", " ", "H", " ", ")", " ", "2", " ">>

\* counts, multipliers and totals at and around MAX_ATOMS_PER_MOLECULE
LimitFormulas ==
    {<<"C", "1", "0", "0", "0">>,
     <<"C", "9", "9", "9", "O">>,
     <<"C", "9", "9", "9", "O", "2">>,
     <<"(", "C", "5", "0", "0", ")", "2">>,
     <<"C", "5", "0", "0", "O", "5", "0", "0">>,
     <<"C", "5", "0", "0", "O", "5", "0", "1">>,
     <<"(", "C", ")", "0">>,
     <<"(", "C", ")", "1", "0", "0", "0">>,
     <<"(", "C", ")", "1", "0", "0", "1">>,
     <<"(", "C", "2", ")", "1", "0", "0", "0">>,
     <<"(", "C", "2", "O", "3", ")", "2", "0", "0">>,
     <<"(", "C", "2", "O", "3", ")", "2", "0", "1">>,
     <<"C", "1", "0", "0", "0", "O">>}

NamedFormulas ==
    {Ca_OH_2, Cu_NO3_2, Nested, Spaced,
     <<"H", "2", "(", "S", "O", "4">>,
     <<"C", "-", "O">>,
     <<"C", "1", "0", "0", "1">>,
     <<"(", "C", "9", "9", "9", ")", "2">>}
    \cup LimitFormulas

FormulaInputs == Strings(MaxFormulaLen) \cup NamedFormulas

NoInput == [equation |-> <<>>, method |-> "undefined"]

InitFormula ==
    /\ loadedElementMap = <<>>
    /\ entry = "parseChemicalFormula"
    /\ pc = "call"
    /\ history = <<>>
    /\ formula \in FormulaInputs
    /\ formulaResult = NoResult
    /\ normalized = <<>>
    /\ normalizedResult = NoResult
    /\ input = NoInput
    /\ maxIterations = DEFAULT_MAX_ITERATIONS
    /\ BalanceIdle
    /\ FractionIdle

NextFormula ==
    \/ ParseFormula
    \/ NormalizeFormula
    \/ ParseNormalized

SpecFormula == InitFormula /\ [][NextFormula]_vars

(***************************************************************************)
(* RobustFraction values built by the constructor and combined by the      *)
(* methods of the class; fracA is `this`, fracB is `other`                 *)
(***************************************************************************)
MaxFrac == 2
MaxOperand == 3

FractionArgs == (0 - MaxFrac)..MaxFrac

allOtherIdle ==
    UNCHANGED <<loadedElementMap, entry, history, formulaVars, balanceVars>>

\* new RobustFraction(numerator, denominator)
Construct ==
    \E numerator \in FractionArgs, denominator \in FractionArgs :
        /\ entry = "RobustFraction"
        /\ fracArgs' = <<numerator, denominator>>
        /\ fracThrew' = constructorThrows(numerator, denominator)
        /\ fracR' = IF constructorThrows(numerator, denominator) THEN fracR
                    ELSE RobustFraction(numerator, denominator)
        /\ pc' = "constructor"
        /\ UNCHANGED <<fracA, fracB>>
        /\ allOtherIdle

\* the value last produced is kept and becomes a later call's operand
isOperand(fraction) ==
    Abs(fraction.num) <= MaxOperand /\ fraction.den <= MaxOperand

KeepAsThis ==
    /\ entry = "RobustFraction"
    /\ pc \notin {"idle", "kept"}
    /\ ~fracThrew
    /\ isOperand(fracR)
    /\ fracA' = fracR
    /\ pc' = "kept"
    /\ UNCHANGED <<fracArgs, fracB, fracR, fracThrew>>
    /\ allOtherIdle

KeepAsOther ==
    /\ entry = "RobustFraction"
    /\ pc \notin {"idle", "kept"}
    /\ ~fracThrew
    /\ isOperand(fracR)
    /\ fracB' = fracR
    /\ pc' = "kept"
    /\ UNCHANGED <<fracArgs, fracA, fracR, fracThrew>>
    /\ allOtherIdle

\* a method that returns a new RobustFraction and cannot throw
Returns(method, value) ==
    /\ entry = "RobustFraction"
    /\ fracR' = value
    /\ fracThrew' = FALSE
    /\ pc' = method
    /\ UNCHANGED <<fracArgs, fracA, fracB>>
    /\ allOtherIdle

Add == Returns("add", add(fracA, fracB))

Subtract == Returns("subtract", subtract(fracA, fracB))

Multiply == Returns("multiply", multiply(fracA, fracB))

Divide ==
    /\ entry = "RobustFraction"
    /\ fracThrew' = divideThrows(fracA, fracB)
    /\ fracR' = IF divideThrows(fracA, fracB) THEN fracR
                ELSE divide(fracA, fracB)
    /\ pc' = "divide"
    /\ UNCHANGED <<fracArgs, fracA, fracB>>
    /\ allOtherIdle

\* a.add(b).subtract(b)
AddSubtract == Returns("add-subtract", subtract(add(fracA, fracB), fracB))

AbsoluteValue == Returns("abs", abs(fracA))

Negate == Returns("negate", negate(fracA))

InitFraction ==
    /\ loadedElementMap = <<>>
    /\ entry = "RobustFraction"
    /\ pc = "idle"
    /\ history = <<>>
    /\ input = NoInput
    /\ maxIterations = DEFAULT_MAX_ITERATIONS
    /\ FormulaIdle
    /\ BalanceIdle
    /\ FractionIdle

NextFraction ==
    \/ Construct
    \/ KeepAsThis
    \/ KeepAsOther
    \/ Add
    \/ Subtract
    \/ Multiply
    \/ Divide
    \/ AddSubtract
    \/ AbsoluteValue
    \/ Negate

SpecFraction == InitFraction /\ [][NextFraction]_vars

(***************************************************************************)
(* Calls one after another in one loaded module: parseChemicalFormula,     *)
(* balanceChemicalEquation, the exported balanceByAlgebraicMethodRobust,   *)
(* and resetElementMap between them                                        *)
(***************************************************************************)
MaxCalls == 2

O2_O == Skeleton(<< <<"O", "2">> >>, << <<"O">> >>)

CallInputs ==
    {[equation |-> e, method |-> m] :
        e \in {plain(O2_O), plain(H2_O2), plain(C_O2_CO2), <<>>,
               equationText(O2_O, <<2, 1>>),
               equationText(C_O2_CO2, <<2, 1, 1>>),
               <<"X", "x", " ", "=", " ", "O", "2">>,
               <<"+", " ", "=", " ", "+">>},
        m \in {"trial-and-error", "algebraic"}}
    \cup {[equation |-> plain(H2_O2_H2O), method |-> "algebraic"],
          [equation |-> plain(O2_O3_O), method |-> "algebraic"],
          [equation |-> plain(C_O2_CO2), method |-> "gravimetric"]}

CallFormulas ==
    {Ca_OH_2, Spaced, <<>>,
     <<"H", "2", "(", "S", "O", "4">>,
     <<"X", "x">>,
     <<"C", "0">>,
     <<"C", "-", "O">>}

\* equation objects handed to balanceByAlgebraicMethodRobust directly
CallEquations ==
    {[reactants |-> <<Compound(<<"H", "2">>, 1), Compound(<<"O", "2">>, 1)>>,
      products |-> <<Compound(<<"H", "2", "O">>, 1)>>],
     [reactants |-> <<Compound(<<"X", "x">>, 1)>>,
      products |-> <<Compound(<<"O", "2">>, 1)>>],
     [reactants |-> <<Compound(<<"(", ")">>, 1)>>,
      products |-> <<Compound(<<"(", ")">>, 1)>>],
     NoEquation}

Completed ==
    \/ entry = "parseChemicalFormula" /\ pc = "returned"
    \/ entry \in {"balanceChemicalEquation", "balanceByAlgebraicMethodRobust"}
          /\ pc = "done"

Call(name, argument, returned) ==
    [entry |-> name, argument |-> argument, result |-> returned]

completedCall ==
    IF entry = "parseChemicalFormula"
    THEN Call(entry, formula, formulaResult)
    ELSE IF entry = "balanceChemicalEquation"
    THEN Call(entry, input, result)
    ELSE Call(entry, equation, result)

\* the call that returned goes to the history and the next one starts
nextCall(name) ==
    /\ Completed
    /\ Len(history) + 1 < MaxCalls
    /\ history' = Append(history, completedCall)
    /\ entry' = name
    /\ FormulaLocalsReset
    /\ BalanceLocalsReset
    /\ UNCHANGED <<loadedElementMap, maxIterations, fractionVars>>

CallParseChemicalFormula ==
    /\ nextCall("parseChemicalFormula")
    /\ formula' \in CallFormulas
    /\ input' = NoInput
    /\ equation' = NoEquation
    /\ pc' = "call"

CallBalanceChemicalEquation ==
    /\ nextCall("balanceChemicalEquation")
    /\ formula' = <<>>
    /\ input' \in CallInputs
    /\ equation' = NoEquation
    /\ pc' = "call"

CallBalanceByAlgebraicMethodRobust ==
    /\ nextCall("balanceByAlgebraicMethodRobust")
    /\ formula' = <<>>
    /\ input' = NoInput
    /\ equation' \in CallEquations
    /\ pc' = "algebraic"

\* resetElementMap()
ResetElementMap ==
    /\ Completed
    /\ loadedElementMap # <<>>
    /\ loadedElementMap' = <<>>
    /\ UNCHANGED <<entry, pc, history, formulaVars, balanceVars, fractionVars>>

InitCalls ==
    /\ loadedElementMap = <<>>
    /\ history = <<>>
    /\ maxIterations = DEFAULT_MAX_ITERATIONS
    /\ formulaResult = NoResult
    /\ normalized = <<>>
    /\ normalizedResult = NoResult
    /\ allElements = <<>>
    /\ reactantCoeffs = <<>>
    /\ productCoeffs = <<>>
    /\ iteration = 0
    /\ tested = 0
    /\ steps = <<>>
    /\ matrix = <<>>
    /\ reduced = <<>>
    /\ fractionSolution = <<>>
    /\ integerCoeffs = <<>>
    /\ result = NoResult
    /\ FractionIdle
    /\ \/ /\ entry = "parseChemicalFormula"
          /\ pc = "call"
          /\ formula \in CallFormulas
          /\ input = NoInput
          /\ equation = NoEquation
       \/ /\ entry = "balanceChemicalEquation"
          /\ pc = "call"
          /\ formula = <<>>
          /\ input \in CallInputs
          /\ equation = NoEquation
       \/ /\ entry = "balanceByAlgebraicMethodRobust"
          /\ pc = "algebraic"
          /\ formula = <<>>
          /\ input = NoInput
          /\ equation \in CallEquations

NextCalls ==
    \/ ParseFormula
    \/ ParseEquation
    \/ TrialStart
    \/ TrialStep
    \/ AlgBuildMatrix
    \/ AlgEliminate
    \/ AlgFindNullSpace
    \/ AlgNormalize
    \/ AlgValidate
    \/ CallParseChemicalFormula
    \/ CallBalanceChemicalEquation
    \/ CallBalanceByAlgebraicMethodRobust
    \/ ResetElementMap

SpecCalls == InitCalls /\ [][NextCalls]_vars

(***************************************************************************)
(* balanceByTrialAndError(equation, maxIterations) called on its own       *)
(***************************************************************************)
equationOf(skeleton) ==
    [reactants |-> [i \in 1..Len(skeleton.reactants) |->
                        Compound(skeleton.reactants[i], 1)],
     products |-> [i \in 1..Len(skeleton.products) |->
                        Compound(skeleton.products[i], 1)]]

H2_ == Skeleton(<< <<"H", "2">> >>, <<>>)
H2_O2_N2_C ==
    Skeleton(<< <<"H", "2">>, <<"O", "2">> >>, << <<"N", "2">>, <<"C">> >>)

\* balanced only by 1 and 16
H16_H == Skeleton(<< <<"H", "1", "6">> >>, << <<"H">> >>)

TrialEquations ==
    {equationOf(skeleton) :
        skeleton \in {H2_, O2_O, H2_O2, H2_O2_H2O, C_O2_CO2, H2_O2_N2_C,
                      H16_H}}

Budgets == {0, 1, 15, 16, 225, 226, DEFAULT_MAX_ITERATIONS}

InitTrial ==
    /\ loadedElementMap \in {<<>>, <<loadPeriodicTable>>}
    /\ entry = "balanceByTrialAndError"
    /\ pc = "trial"
    /\ history = <<>>
    /\ input = NoInput
    /\ maxIterations \in Budgets
    /\ equation \in TrialEquations
    /\ allElements = <<>>
    /\ reactantCoeffs = <<>>
    /\ productCoeffs = <<>>
    /\ iteration = 0
    /\ tested = 0
    /\ steps = <<>>
    /\ matrix = <<>>
    /\ reduced = <<>>
    /\ fractionSolution = <<>>
    /\ integerCoeffs = <<>>
    /\ result = NoResult
    /\ FormulaIdle
    /\ FractionIdle

NextTrial ==
    \/ TrialStart
    \/ TrialStep

SpecTrial == InitTrial /\ [][NextTrial]_vars

\* The function runs to its return: a turn that can be taken is taken.  A
\* turn can be taken exactly when the function has not returned, so this is
\* weak fairness of NextTrial, WF_vars(NextTrial), with the enabling
\* condition written out.
SpecTrialLive ==
    SpecTrial /\ ([]<>(pc = "done") \/ []<><<NextTrial>>_vars)

(***************************************************************************)
(* Properties of balanceChemicalEquation                                   *)
(***************************************************************************)
BalanceReturned == pc = "done" /\ entry = "balanceChemicalEquation"

resultCompounds == result.balancedReactants \o result.balancedProducts

resultCoefficients == Coefficients(resultCompounds)

\* C1 (conservation): in a result with isValid = true, every element of the
\* equation has the same sum of coefficient x atom count over
\* balancedReactants as over balancedProducts.
C1_Conservation ==
    (BalanceReturned /\ result.isValid) =>
        \A e \in Range(getAllElements(resultCompounds, loadedElementMap)) :
            countElementInSide(result.balancedReactants, e, loadedElementMap)
            = countElementInSide(result.balancedProducts, e, loadedElementMap)

\* C2 (positivity): in a result with isValid = true, every coefficient of
\* balancedReactants and balancedProducts is at least 1.
C2_Positivity ==
    (BalanceReturned /\ result.isValid) =>
        \A i \in 1..Len(resultCoefficients) : resultCoefficients[i] >= 1

\* C3 (minimality): in a result with isValid = true, the greatest common
\* divisor of the coefficients of balancedReactants followed by
\* balancedProducts is 1.
C3_Minimality ==
    (BalanceReturned /\ result.isValid) => gcd(resultCoefficients) = 1

Scenario(skeleton, coefficients) ==
    (BalanceReturned /\ input.equation = plain(skeleton)
        /\ methodOf(input) \in {"trial-and-error", "algebraic"}) =>
        result.isValid /\ resultCoefficients = coefficients

\* C4 (scenarios): H2 + O2 = H2O is balanced to (2,1,2), Fe + O2 = Fe2O3 to
\* (4,3,2) and C2H6 + O2 = CO2 + H2O to (2,7,4,6), by either method and with
\* isValid = true.
C4_Scenarios ==
    /\ Scenario(H2_O2_H2O, <<2, 1, 2>>)
    /\ Scenario(Fe_O2_Fe2O3, <<4, 3, 2>>)
    /\ Scenario(C2H6_O2_CO2_H2O, <<2, 7, 4, 6>>)

\* the search has gone through its 4775 vectors and returned the third scenario
C4_Witness ==
    /\ BalanceReturned
    /\ input.equation = plain(C2H6_O2_CO2_H2O)
    /\ input.method = "trial-and-error"
    /\ result.isValid
    /\ tested > 1

(***************************************************************************)
(* Properties of parseChemicalFormula                                      *)
(***************************************************************************)
FormulaReturned == entry = "parseChemicalFormula" /\ pc # "call"

\* The atoms a formula denotes, read off its tokens without the parser: the
\* number after an element (1 if none), times the number after the closing
\* parenthesis of every group that encloses it (1 if none).
numberAfter(tokens, i) ==
    IF i < Len(tokens) /\ tokens[i + 1].type = "number"
    THEN parseInt(tokens[i + 1].value) ELSE 1

\* the index of the parenthesis closing the group entered before k, 0 if none
RECURSIVE closeOf(_, _, _)
closeOf(tokens, k, depth) ==
    IF k > Len(tokens) THEN 0
    ELSE IF tokens[k].type = "open-paren" THEN closeOf(tokens, k + 1, depth + 1)
    ELSE IF tokens[k].type = "close-paren"
    THEN (IF depth = 1 THEN k ELSE closeOf(tokens, k + 1, depth - 1))
    ELSE closeOf(tokens, k + 1, depth)

\* the product of the multipliers of the groups opened at j..i-1 that enclose i
RECURSIVE multiplierAt(_, _, _)
multiplierAt(tokens, i, j) ==
    IF j >= i THEN 1
    ELSE (IF tokens[j].type = "open-paren" /\ closeOf(tokens, j + 1, 1) > i
          THEN numberAfter(tokens, closeOf(tokens, j + 1, 1)) ELSE 1)
         * multiplierAt(tokens, i, j + 1)

RECURSIVE atomTotalFrom(_, _, _)
atomTotalFrom(tokens, symbol, i) ==
    IF i > Len(tokens) THEN 0
    ELSE (IF tokens[i].type = "element" /\ tokens[i].value = symbol
          THEN numberAfter(tokens, i) * multiplierAt(tokens, i, 1) ELSE 0)
         + atomTotalFrom(tokens, symbol, i + 1)

AtomTotal(str, symbol) == atomTotalFrom(tokenize(trim(str)), symbol, 1)

SymbolsIn(str) ==
    {tokenize(trim(str))[i].value :
        i \in {k \in 1..Len(tokenize(trim(str))) :
                 tokenize(trim(str))[k].type = "element"}}

\* the symbol -> count mapping of a ParsedFormula
Mapping(parsed) == Range(parsed.elements)

\* C7 (parser idempotence): when parseChemicalFormula(f) is valid,
\* parseChemicalFormula(normalizeFormula(f)) is valid too and gives the same
\* symbol -> count mapping.
C7_Idempotence ==
    (entry = "parseChemicalFormula" /\ pc = "done" /\ formulaResult.isValid) =>
        /\ normalizedResult.isValid
        /\ Mapping(normalizedResult) = Mapping(formulaResult)

\* a valid formula with whitespace inside it, normalized and parsed again
C7_Witness ==
    /\ entry = "parseChemicalFormula"
    /\ pc = "done"
    /\ formulaResult.isValid
    /\ normalized # trim(formula)
    /\ Len(normalizedResult.elements) = 2

\* C8 (ParsedFormula invariant): in a valid ParsedFormula no symbol occurs
\* twice, every count is at least 1, and every symbol's count is the number of
\* atoms of that symbol in the formula, every enclosing multiplier applied.
C8_ParsedFormula ==
    (FormulaReturned /\ formulaResult.isValid) =>
        /\ \A i, j \in 1..Len(formulaResult.elements) :
              formulaResult.elements[i].symbol = formulaResult.elements[j].symbol
                  => i = j
        /\ \A i \in 1..Len(formulaResult.elements) :
              /\ formulaResult.elements[i].count >= 1
              /\ formulaResult.elements[i].count
                    = AtomTotal(formula, formulaResult.elements[i].symbol)
        /\ \A symbol \in SymbolsIn(formula) :
              HasSymbol(formulaResult.elements, symbol)

\* ((C2)2O)3C: a symbol inside two nested groups and again outside them
C8_Witness ==
    /\ FormulaReturned
    /\ formula = Nested
    /\ formulaResult.isValid
    /\ CountOf(formulaResult.elements, <<"C">>) = 13

\* C9 (scenarios): Ca(OH)2 parses to Ca:1, O:2, H:2 and Cu(NO3)2 to
\* Cu:1, N:2, O:6, valid and in the order of first occurrence.
C9_Scenarios ==
    /\ (FormulaReturned /\ formula = Ca_OH_2) =>
          /\ formulaResult.isValid
          /\ formulaResult.elements =
                << [symbol |-> <<"C", "a">>, count |-> 1],
                   [symbol |-> <<"O">>, count |-> 2],
                   [symbol |-> <<"H">>, count |-> 2] >>
    /\ (FormulaReturned /\ formula = Cu_NO3_2) =>
          /\ formulaResult.isValid
          /\ formulaResult.elements =
                << [symbol |-> <<"C", "u">>, count |-> 1],
                   [symbol |-> <<"N">>, count |-> 2],
                   [symbol |-> <<"O">>, count |-> 6] >>

\* parseChemicalFormula has returned for Cu(NO3)2
C9_Witness ==
    /\ FormulaReturned
    /\ formula = Cu_NO3_2
    /\ Len(formulaResult.elements) = 3

(***************************************************************************)
(* Properties of RobustFraction                                            *)
(***************************************************************************)
\* den > 0, num and den have no common divisor above 1, zero is 0/1
Reduced(fraction) ==
    /\ fraction.den > 0
    /\ \A k \in 2..fraction.den :
          ~(fraction.num % k = 0 /\ fraction.den % k = 0)
    /\ fraction.num = 0 => fraction.den = 1

\* C10 (RobustFraction invariant): every value built by the constructor or
\* returned by add, subtract, multiply, divide, abs or negate has den > 0 and
\* gcd(|num|, den) = 1, zero being 0/1; the constructor with denominator 0
\* and divide by a fraction of numerator 0 raise an error, and nothing else
\* does.
C10_RobustFraction ==
    entry = "RobustFraction" =>
        /\ Reduced(fracA)
        /\ Reduced(fracB)
        /\ Reduced(fracR)
        /\ fracThrew <=> \/ pc = "constructor" /\ fracArgs[2] = 0
                         \/ pc = "divide" /\ fracB.num = 0

\* divide returned a proper negative fraction after dividing by a negative one
C10_Witness ==
    /\ entry = "RobustFraction"
    /\ pc = "divide"
    /\ ~fracThrew
    /\ fracB.num < 0
    /\ fracR.num < 0
    /\ fracR.den > 1

(***************************************************************************)
(* Properties of successive calls                                          *)
(***************************************************************************)
\* the calls that have returned so far, oldest first
calls == IF Completed THEN Append(history, completedCall) ELSE history

coefficientsOf(returned) ==
    Coefficients(returned.balancedReactants \o returned.balancedProducts)

\* C5 (determinism): two calls of balanceChemicalEquation with the same
\* equation and method return the same isValid, coefficients and steps (here:
\* the same result altogether), whatever was called before; the one thing
\* kept between calls, the element map, is empty or the whole table.
C5_Determinism ==
    /\ \A i, j \in 1..Len(calls) :
          (calls[i].entry = calls[j].entry
              /\ calls[i].argument = calls[j].argument)
          => /\ calls[i].result.isValid = calls[j].result.isValid
             /\ calls[i].result = calls[j].result
    /\ loadedElementMap \in {<<>>, <<loadPeriodicTable>>}

\* the same equation balanced twice: first on the empty element map, then on
\* the loaded one
C5_Witness ==
    /\ Len(history) = 1
    /\ Completed
    /\ entry = "balanceChemicalEquation"
    /\ history[1].entry = "balanceChemicalEquation"
    /\ history[1].argument = input
    /\ input.method = "trial-and-error"
    /\ loadedElementMap # <<>>
    /\ result.isValid
    /\ coefficientsOf(result) = <<1, 2>>
    /\ Len(result.steps) > 1

\* balanceByAlgebraicMethodRobust ran in the call: called directly, or by
\* balanceChemicalEquation after the equation parsed
algebraicCalled ==
    \/ entry = "balanceByAlgebraicMethodRobust"
    \/ /\ entry = "balanceChemicalEquation"
       /\ methodOf(input) = "algebraic"
       /\ parseChemicalEquation(input.equation, loadedElementMap).isValid

\* C6 (no exception leaves an entry point): every call of
\* parseChemicalFormula returns a ParsedFormula and every call of
\* balanceChemicalEquation, whatever the method, a BalanceResult; an invalid
\* result carries an error message; an exception raised inside (by
\* FormulaParser, by buildElementMatrix, by the elimination of an empty
\* matrix) ends as a result with isValid = false and an error.
C6_NeverThrows ==
    /\ \A i \in 1..Len(calls) :
          /\ ~calls[i].result.threw
          /\ ~calls[i].result.isValid => calls[i].result.error # <<>>
    /\ (Completed /\ entry = "parseChemicalFormula"
           /\ Len(trim(formula)) <= MAX_FORMULA_LENGTH
           /\ parseGroup(tokenize(trim(formula)), 0, loadedElementMap).threw)
       => /\ ~formulaResult.isValid
          /\ formulaResult.error
                = parseGroup(tokenize(trim(formula)), 0, loadedElementMap).error
    /\ (Completed /\ algebraicCalled
           /\ \/ buildElementMatrix(equation, loadedElementMap).threw
              \/ buildElementMatrix(equation, loadedElementMap).matrix = <<>>)
       => /\ ~result.isValid
          /\ result.error = <<"Error en metodo algebraico">>
          /\ result.method = "algebraic"

\* FormulaParser threw on an unclosed parenthesis and parse() caught it
C6_Witness ==
    /\ Completed
    /\ entry = "parseChemicalFormula"
    /\ formula = <<"H", "2", "(", "S", "O", "4">>
    /\ parseGroup(tokenize(formula), 0, loadedElementMap).threw
    /\ ~formulaResult.isValid
    /\ formulaResult.error = <<INVALID_SYNTAX>>

\* C11 (fraction exactness): a.add(b).subtract(b) has the num and the den
\* of a, for numerators of either sign and zero.
C11_AddSubtract ==
    (entry = "RobustFraction" /\ pc = "add-subtract") =>
        /\ fracR.num = fracA.num
        /\ fracR.den = fracA.den

\* a negative proper fraction plus and minus a fraction of another denominator
C11_Witness ==
    /\ entry = "RobustFraction"
    /\ pc = "add-subtract"
    /\ fracA.num < 0
    /\ fracA.den = 3
    /\ fracB.num > 0
    /\ fracB.den = 2
    /\ fracR = fracA

\* C12 (ChemicalEquation invariant): an equation that parseChemicalEquation
\* accepts has at least one reactant and at least one product, so no result
\* of balanceChemicalEquation with isValid = true has an empty side.
C12_NonEmptySides ==
    /\ (entry = "balanceChemicalEquation" /\ pc \in {"trial", "algebraic"}) =>
          /\ Len(equation.reactants) >= 1
          /\ Len(equation.products) >= 1
    /\ (Completed /\ entry = "balanceChemicalEquation" /\ result.isValid) =>
          /\ Len(result.balancedReactants) >= 1
          /\ Len(result.balancedProducts) >= 1

\* every formula of the skeleton is one parseChemicalFormula accepts
acceptedByFormulaParser(skeleton) ==
    \A i \in 1..size(skeleton) :
        parseChemicalFormula((skeleton.reactants \o skeleton.products)[i],
                             loadedElementMap).isValid

formulasOf(compounds) == [i \in 1..Len(compounds) |-> compounds[i].formula]

\* C13 (the equation parser accepts what the Formula Parser accepts): an
\* equation with one arrow, non-empty terms, coefficients in 1..100 and
\* formulas that parseChemicalFormula accepts, a leading or a nested group
\* included, is parsed into its reactants and products.
C13_AcceptsParserFormulas ==
    \A skeleton \in Skeletons :
        (/\ entry = "balanceChemicalEquation"
         /\ pc # "call"
         /\ input.equation \in written(skeleton)
         /\ acceptedByFormulaParser(skeleton))
        => /\ formulasOf(equation.reactants) = skeleton.reactants
           /\ formulasOf(equation.products) = skeleton.products

\* the arrow tokens of a string, counted and located character by character
arrowAt(str, i) ==
    \/ str[i] \in {"→", "="}
    \/ i < Len(str) /\ str[i] = "-" /\ str[i + 1] = ">"

arrowCount(str) == Cardinality({i \in 1..Len(str) : arrowAt(str, i)})

firstArrowAt(str) == CHOOSE i \in 1..Len(str) :
    arrowAt(str, i) /\ \A j \in 1..(i - 1) : ~arrowAt(str, j)

beforeArrow(str) == SubSeq(str, 1, firstArrowAt(str) - 1)

afterArrow(str) ==
    SubSeq(str, firstArrowAt(str) + (IF str[firstArrowAt(str)] = "-" THEN 2 ELSE 1),
           Len(str))

EquationParsed == entry = "balanceChemicalEquation" /\ pc # "call"

\* C14 (arrow handling): a string with no arrow token, or with more than one
\* occurrence of '→', '->' and '=' together, is rejected; an accepted string
\* has one arrow and is split at it, reactants before and products after;
\* each of the three tokens is recognised.
C14_Arrows ==
    /\ (EquationParsed /\ arrowCount(input.equation) # 1) =>
          /\ equation = NoEquation
          /\ pc = "done"
          /\ ~result.isValid
          /\ result.error # <<>>
    /\ (EquationParsed /\ equation # NoEquation
           /\ input.equation \in ArrowEquations) =>
          /\ formulasOf(equation.reactants) = <<beforeArrow(input.equation)>>
          /\ formulasOf(equation.products) = <<afterArrow(input.equation)>>
    /\ \A arrow \in Arrows :
          (EquationParsed /\ input.equation = <<"O", "2">> \o arrow \o <<"O">>)
              => equation # NoEquation

\* 'O2->O' was split at its arrow
C14_Witness ==
    /\ EquationParsed
    /\ input.equation = <<"O", "2", "-", ">", "O">>
    /\ formulasOf(equation.reactants) = << <<"O", "2">> >>
    /\ formulasOf(equation.products) = << <<"O">> >>

\* 'O2=O→O', two different arrow tokens, was rejected
C14_WitnessTwoArrows ==
    /\ EquationParsed
    /\ input.equation = <<"O", "2", "=", "O", "→", "O">>
    /\ ~result.isValid

\* the number a coefficient text stands for, 1 when there is none
coefficientValue(text) ==
    CASE text = <<>> -> 1
      [] text = <<"0">> -> 0
      [] text = <<"1">> -> 1
      [] text = <<"0", "0", "7">> -> 7
      [] text = <<"1", "0", "0">> -> 100
      [] text = <<"1", "0", "1">> -> 101

\* the call ended at the parse: no equation, no step, no search, no matrix
RejectedByParser ==
    /\ pc = "done"
    /\ equation = NoEquation
    /\ ~result.isValid
    /\ result.error # <<>>
    /\ result.steps = <<>>
    /\ result.balancedReactants = <<>>
    /\ result.balancedProducts = <<>>
    /\ result.originalEquation = NoEquation
    /\ tested = 0
    /\ matrix = <<>>
    /\ parseChemicalEquation(input.equation, loadedElementMap).reactants = <<>>
    /\ parseChemicalEquation(input.equation, loadedElementMap).products = <<>>
    /\ parseChemicalEquation(input.equation, loadedElementMap).allElements = <<>>

\* C15 (all-or-nothing parse): a term without digits in front has coefficient
\* 1; one term with a coefficient of 0 or above 100, or with a formula the
\* Formula Parser rejects, makes parseChemicalEquation return isValid = false
\* with an error and no reactants, products or elements, and
\* balanceChemicalEquation return isValid = false without running a balancer.
C15_AllOrNothing ==
    /\ \A texts \in [1..3 -> CoefficientTexts] :
          (EquationParsed /\ input.equation = coefficientEquation(texts)) =>
              IF \E i \in 1..3 : coefficientValue(texts[i]) \notin 1..MAX_COEFFICIENT
              THEN RejectedByParser
              ELSE Coefficients(equation.reactants \o equation.products)
                      = [i \in 1..3 |-> coefficientValue(texts[i])]
    /\ (EquationParsed /\ input.equation \in BadFormulaEquations) =>
          RejectedByParser

\* '100O + O = 0O2': the last term is out of range, the first two are not
C15_Witness ==
    /\ EquationParsed
    /\ input.equation
          = coefficientEquation(<< <<"1", "0", "0">>, <<>>, <<"0">> >>)
    /\ RejectedByParser

\* the parentheses of a string do not match: a ')' with no '(' open before
\* it, or a '(' left open at the end
RECURSIVE unbalancedFrom(_, _, _)
unbalancedFrom(str, i, open) ==
    IF i > Len(str) THEN open # 0
    ELSE IF str[i] = "(" THEN unbalancedFrom(str, i + 1, open + 1)
    ELSE IF str[i] = ")"
    THEN (IF open = 0 THEN TRUE ELSE unbalancedFrom(str, i + 1, open - 1))
    ELSE unbalancedFrom(str, i + 1, open)

unbalanced(str) == unbalancedFrom(str, 1, 0)

\* a number that follows neither an element nor a closing parenthesis
misplacedNumber(tokens) ==
    \E i \in 1..Len(tokens) :
        /\ tokens[i].type = "number"
        /\ i = 1 \/ tokens[i - 1].type \in {"number", "open-paren"}

\* the formula is within the length limit, has tokens, and its parentheses
\* or its numbers are out of place
SyntaxFault ==
    /\ Len(trim(formula)) <= MAX_FORMULA_LENGTH
    /\ Len(tokenize(trim(formula))) > 0
    /\ unbalanced(formula) \/ misplacedNumber(tokenize(trim(formula)))

\* every element of the formula is known and every number is in 1..1000
symbolsAndNumbersInRange(tokens) ==
    \A i \in 1..Len(tokens) :
        /\ tokens[i].type = "element" =>
              tokens[i].value \in loadPeriodicTable
        /\ tokens[i].type = "number" =>
              parseInt(tokens[i].value) \in 1..MAX_ATOMS_PER_MOLECULE

\* C16 (parenthesis errors), as stated: a formula with unbalanced
\* parentheses, an unexpected token or tokens left over is returned with
\* isValid = false, the syntax error and no elements.
C16_ParenthesisErrors ==
    (FormulaReturned /\ SyntaxFault) =>
        /\ ~formulaResult.isValid
        /\ formulaResult.elements = <<>>
        /\ formulaResult.error = <<INVALID_SYNTAX>>

\* C16, amended: such a formula is returned with isValid = false, no
\* elements and an error; the error is the syntax error when every element
\* is known and every count and multiplier is in 1..1000, and the error of
\* the unknown element or of the count otherwise possible.
C16_ParenthesisErrorsAmended ==
    (FormulaReturned /\ SyntaxFault) =>
        /\ ~formulaResult.isValid
        /\ formulaResult.elements = <<>>
        /\ formulaResult.error # <<>>
        /\ formulaResult.error[1] \in {INVALID_SYNTAX, INVALID_ELEMENT, VALUE_TOO_LARGE}
        /\ symbolsAndNumbersInRange(tokenize(trim(formula)))
              => formulaResult.error = <<INVALID_SYNTAX>>

\* 'H2(SO4': the group is never closed
C16_Witness ==
    /\ FormulaReturned
    /\ formula = <<"H", "2", "(", "S", "O", "4">>
    /\ SyntaxFault
    /\ ~formulaResult.isValid
    /\ formulaResult.elements = <<>>
    /\ formulaResult.error = <<INVALID_SYNTAX>>

\* the sum of the atoms of all elements, read off the tokens
RECURSIVE atomSumFrom(_, _)
atomSumFrom(tokens, i) ==
    IF i > Len(tokens) THEN 0
    ELSE (IF tokens[i].type = "element"
          THEN numberAfter(tokens, i) * multiplierAt(tokens, i, 1) ELSE 0)
         + atomSumFrom(tokens, i + 1)

numberOutOfRange(tokens) ==
    \E i \in 1..Len(tokens) :
        /\ tokens[i].type = "number"
        /\ parseInt(tokens[i].value) \notin 1..MAX_ATOMS_PER_MOLECULE

\* C17 (atom-count limits): a formula with a count or multiplier of 0 or
\* above 1000 is rejected; so is one whose counts and multipliers are all in
\* 1..1000 but whose atoms sum to more than 1000; a formula of known
\* elements, rightly formed, with numbers in range and a sum of at most 1000,
\* exactly 1000 included, is accepted.
C17_AtomLimits ==
    FormulaReturned =>
        /\ numberOutOfRange(tokenize(trim(formula))) => ~formulaResult.isValid
        /\ atomSumFrom(tokenize(trim(formula)), 1) > MAX_ATOMS_PER_MOLECULE
              => ~formulaResult.isValid
        /\ (/\ Len(tokenize(trim(formula))) > 0
            /\ Len(trim(formula)) <= MAX_FORMULA_LENGTH
            /\ ~SyntaxFault
            /\ symbolsAndNumbersInRange(tokenize(trim(formula)))
            /\ atomSumFrom(tokenize(trim(formula)), 1) <= MAX_ATOMS_PER_MOLECULE)
           => /\ formulaResult.isValid
              /\ SumCounts(formulaResult.elements)
                    = atomSumFrom(tokenize(trim(formula)), 1)

\* '(C999)2': 999 and 2 are in range, 1998 atoms are not
C17_Witness ==
    /\ FormulaReturned
    /\ formula = <<"(", "C", "9", "9", "9", ")", "2">>
    /\ ~numberOutOfRange(tokenize(formula))
    /\ ~formulaResult.isValid
    /\ formulaResult.error = <<VALUE_TOO_LARGE>>

\* 'C999O': 1000 atoms are accepted
C17_WitnessAtLimit ==
    /\ FormulaReturned
    /\ formula = <<"C", "9", "9", "9", "O">>
    /\ formulaResult.isValid
    /\ SumCounts(formulaResult.elements) = MAX_ATOMS_PER_MOLECULE

\* an opening parenthesis directly followed by a closing one
emptyGroup(tokens) ==
    \E i \in 1..(Len(tokens) - 1) :
        tokens[i].type = "open-paren" /\ tokens[i + 1].type = "close-paren"

\* C18 (empty groups are rejected): a formula containing '()' is returned
\* with isValid = false, and a ParsedFormula with isValid = true has at least
\* one element.
C18_NoEmptyGroup ==
    FormulaReturned =>
        /\ emptyGroup(tokenize(trim(formula))) => ~formulaResult.isValid
        /\ formulaResult.isValid => Len(formulaResult.elements) >= 1

(***************************************************************************)
(* Properties of the search of balanceByTrialAndError                      *)
(***************************************************************************)
Searching == pc = "search"

\* the vector the loop tests next: reactant slots, then product slots
vector == reactantCoeffs \o productCoeffs

\* the place of a vector in the lexicographic order over 1..15, from 0, the
\* last slot counting least
RECURSIVE rankFrom(_, _, _)
rankFrom(v, i, acc) ==
    IF i > Len(v) THEN acc ELSE rankFrom(v, i + 1, acc * 15 + (v[i] - 1))

rank(v) == rankFrom(v, 1, 0)

\* C19 (search order): in the loop every slot is within 1..15; the first
\* vector tested is all ones; each vector tested next is the lexicographic
\* successor of the one before, the last product slot varying fastest and the
\* product part carrying into the reactant part; so the k-th vector tested is
\* the k-th of the order and none is tested twice.
C19_SearchOrder ==
    /\ [](Searching =>
            /\ \A i \in 1..Len(vector) : vector[i] \in 1..15
            /\ Len(reactantCoeffs) = Len(equation.reactants)
            /\ Len(productCoeffs) = Len(equation.products)
            /\ tested = 0 => vector = ones(Len(vector))
            /\ rank(vector) = tested)
    /\ [][(Searching /\ pc' = "search") =>
            /\ tested' = tested + 1
            /\ rank(reactantCoeffs' \o productCoeffs') = rank(vector) + 1]_vars

\* the product slot has overflowed 15 times and the last reactant slot once
C19_Witness ==
    /\ Searching
    /\ reactantCoeffs = <<2, 1>>
    /\ productCoeffs = <<1>>
    /\ tested = 225

RECURSIVE power(_, _)
power(base, exponent) ==
    IF exponent = 0 THEN 1 ELSE base * power(base, exponent - 1)

Min(a, b) == IF a < b THEN a ELSE b

\* 15^n for the n compounds of the equation
searchSpace ==
    power(maxCoefficient, Len(equation.reactants) + Len(equation.products))

TrialReturned == entry = "balanceByTrialAndError" /\ pc = "done"

\* C20 (termination and work cap): balanceByTrialAndError returns, having
\* tested in its loop at most min(maxIterations, 15^n) vectors, and it
\* returns with a solution, or with the budget used up, or with the odometer
\* run through.
C20_Termination ==
    /\ [](entry = "balanceByTrialAndError" =>
            tested <= Min(maxIterations, searchSpace))
    /\ [](TrialReturned =>
            \/ result.isValid
            \/ ~result.isValid /\ iteration = maxIterations /\ tested = maxIterations
            \/ ~result.isValid /\ tested = searchSpace)
    /\ <>TrialReturned

\* four compounds that cannot balance: the budget of 10000 ends the search
C20_Witness ==
    /\ TrialReturned
    /\ Len(equation.reactants) + Len(equation.products) = 4
    /\ maxIterations = DEFAULT_MAX_ITERATIONS
    /\ tested = maxIterations
    /\ ~result.isValid

\* two compounds that cannot balance: the odometer ends the search
C20_WitnessOverflow ==
    /\ TrialReturned
    /\ maxIterations = DEFAULT_MAX_ITERATIONS
    /\ tested = 225
    /\ ~result.isValid

\* the vector of n slots at place r of the order
RECURSIVE unrank(_, _)
unrank(r, n) ==
    IF n = 0 THEN <<>>
    ELSE unrank(r \div 15, n - 1) \o <<(r % 15) + 1>>

\* the atoms of an element in v[offset + i] molecules of each compound i
RECURSIVE atomsOf(_, _, _, _)
atomsOf(compounds, v, offset, element) ==
    IF Len(compounds) = 0 THEN 0
    ELSE v[offset + 1]
           * CountOf(parseChemicalFormula(compounds[1].formula,
                                          loadedElementMap).elements, element)
         + atomsOf(Tail(compounds), v, offset + 1, element)

symbolsOfEquation ==
    UNION {{el.symbol :
               el \in Range(parseChemicalFormula(c.formula,
                                                 loadedElementMap).elements)} :
              c \in Range(equation.reactants \o equation.products)}

\* the vector gives every element as many atoms on the left as on the right
conserves(v) ==
    \A e \in symbolsOfEquation :
        atomsOf(equation.reactants, v, 0, e)
        = atomsOf(equation.products, v, Len(equation.reactants), e)

compoundCount == Len(equation.reactants) + Len(equation.products)

\* some conserving vector is among the first min(maxIterations, 15^n)
conservedWithinBudget ==
    \E r \in 0..(Min(maxIterations, searchSpace) - 1) :
        conserves(unrank(r, compoundCount))

\* C21 (success characterisation, as stated): balanceByTrialAndError returns
\* isValid = true exactly when a conserving vector over 1..15 is among the
\* first min(maxIterations, 15^n) vectors of the order.
C21_Success ==
    TrialReturned => (result.isValid <=> conservedWithinBudget)

\* C21 (amended): isValid = true exactly when the vector of ones conserves
\* every element (tested before the loop, whatever the budget) or a
\* conserving vector is among the first min(maxIterations, 15^n) vectors.
C21_SuccessAmended ==
    TrialReturned =>
        (result.isValid <=>
            (conserves(ones(compoundCount)) \/ conservedWithinBudget))

\* H2 + O2 -> H2O is found at the 227th vector, <<2, 1, 2>>
C21_Witness ==
    /\ TrialReturned
    /\ result.isValid
    /\ tested = 227
    /\ conserves(<<2, 1, 2>>)

\* H16 -> H needs the coefficient 16: the search runs through and fails
C21_WitnessAbove15 ==
    /\ TrialReturned
    /\ ~result.isValid
    /\ compoundCount = 2
    /\ conserves(<<1, 16>>)
    /\ tested = searchSpace

\* the number stated by the error of a failed search and by its last step
reportedInError == result.error[2]

reportedInLastStep == result.steps[Len(result.steps)].description[2]

\* C22 (failure report): when balanceByTrialAndError returns isValid = false,
\* the number in its error and in its last step is the number of vectors the
\* loop tested.
C22_FailureReport ==
    (TrialReturned /\ ~result.isValid) =>
        /\ result.error[1] = CANNOT_BALANCE
        /\ reportedInError = tested
        /\ reportedInLastStep = tested

\* the budget ends the search: the number reported is the number tested
C22_BudgetReached ==
    (TrialReturned /\ ~result.isValid /\ tested < searchSpace) =>
        /\ reportedInError = tested
        /\ reportedInLastStep = tested

\* the odometer ends the search: one vector more was tested than reported
C22_OverflowReportsOneLess ==
    (TrialReturned /\ ~result.isValid /\ tested = searchSpace) =>
        /\ reportedInError = tested - 1
        /\ reportedInLastStep = tested - 1

(***************************************************************************)
(* Properties of the algebraic method                                      *)
(***************************************************************************)
\* gaussianEliminationRobust has returned
EliminationReturned == "rank" \in DOMAIN reduced

\* the sum of fracs[k] * weights[k] from k on, added to acc, not reduced
RECURSIVE weightedSum(_, _, _, _)
weightedSum(fracs, weights, k, acc) ==
    IF k > Len(fracs) THEN acc
    ELSE weightedSum(fracs, weights, k + 1,
             [num |-> acc.num * fracs[k].den + fracs[k].num * weights[k] * acc.den,
              den |-> acc.den * fracs[k].den])

\* row . x = 0 for a row of fractions and a vector of integers
orthogonal(row, x) == weightedSum(row, x, 1, [num |-> 0, den |-> 1]).num = 0

inNullSpace(m, x) == \A r \in 1..Len(m) : orthogonal(m[r], x)

\* the row is the sum of the pivot rows of r, each taken as often as the row's
\* entry in that pivot column says
combinationOfPivotRows(row, r, pivotCols) ==
    \A j \in 1..Len(row) :
        LET sum == weightedSum([i \in 1..Len(pivotCols) |-> r[i][j]],
                               [i \in 1..Len(pivotCols) |-> row[pivotCols[i] + 1].num],
                               1, [num |-> 0, den |-> 1])
        IN /\ row[j].den = 1
           /\ sum.num = row[j].num * sum.den

SmallVectors(n) == [1..n -> -2..2]

absLess(a, b) == Abs(a.num) * b.den < Abs(b.num) * a.den

\* the pivot search from row cur in column col gives the first row with the
\* largest absolute value, or none when the column is zero from cur down
firstLargest(m, col, cur, best) ==
    IF \A r \in cur..Len(m) : m[r][col].num = 0
    THEN best.row = 0 \/ best.value.num = 0
    ELSE /\ best.row \in cur..Len(m)
         /\ best.value = m[best.row][col]
         /\ \A r \in cur..Len(m) :
               /\ ~absLess(m[best.row][col], m[r][col])
               /\ r < best.row => absLess(m[r][col], m[best.row][col])

pivotRule(m) ==
    \A col \in 1..Len(m[1]), cur \in 1..Len(m) :
        firstLargest(m, col, cur,
            bestPivot(m, col, cur, [row |-> 0, value |-> RobustFraction(0, 1)]))

reducedRowEchelon(r, rk, pivotCols) ==
    /\ rk = Len(pivotCols)
    /\ rk <= Len(r)
    /\ \A i \in 1..Len(pivotCols) : pivotCols[i] \in 0..(Len(r[1]) - 1)
    /\ \A i \in 1..(Len(pivotCols) - 1) : pivotCols[i] < pivotCols[i + 1]
    /\ \A i \in 1..Len(pivotCols), row \in 1..Len(r) :
          r[row][pivotCols[i] + 1] =
              IF row = i THEN RobustFraction(1, 1) ELSE RobustFraction(0, 1)
    /\ \A row \in (rk + 1)..Len(r), j \in 1..Len(r[1]) :
          r[row][j] = RobustFraction(0, 1)

\* C23 (elimination): the matrix returned by gaussianEliminationRobust is in
\* reduced row echelon form with rank = number of pivot columns, it has the
\* row space and the null space of the input, and the pivot search gives the
\* first row at or below the current one with the largest absolute value.
C23_Elimination ==
    EliminationReturned =>
        /\ reducedRowEchelon(reduced.reducedMatrix, reduced.rank, reduced.pivotCols)
        /\ Len(reduced.reducedMatrix) = Len(matrix.matrix)
        /\ \A row \in 1..Len(matrix.matrix) :
              combinationOfPivotRows(matrix.matrix[row], reduced.reducedMatrix,
                                     reduced.pivotCols)
        /\ \A x \in SmallVectors(Len(matrix.compounds)) :
              inNullSpace(matrix.matrix, x) <=> inNullSpace(reduced.reducedMatrix, x)
        /\ pivotRule(matrix.matrix)
        /\ pivotRule(reduced.reducedMatrix)

\* C2H6 + O2 -> CO2 + H2O: the row of H (6) is swapped above the row of C (2)
C23_Witness ==
    /\ EliminationReturned
    /\ Len(matrix.compounds) = 4
    /\ matrix.matrix[1][1] = RobustFraction(2, 1)
    /\ matrix.matrix[2][1] = RobustFraction(6, 1)
    /\ reduced.rank = 3
    /\ reduced.pivotCols = <<0, 1, 2>>

\* H2O2 -> HO: the second row becomes zero, rank 1
C23_WitnessZeroRow ==
    /\ EliminationReturned
    /\ Len(reduced.reducedMatrix) = 2
    /\ reduced.rank = 1
    /\ \A j \in 1..2 : reduced.reducedMatrix[2][j].num = 0

\* findNullSpace has returned
NullSpaceReturned == EliminationReturned /\ Len(fractionSolution) > 0

freeColumns == freeVarsOf(reduced.pivotCols, Len(matrix.compounds))

\* M x = 0 for the matrix of integers M and the vector of fractions x
solves(m, x) ==
    \A r \in 1..Len(m) :
        weightedSum(x, [j \in 1..Len(x) |-> m[r][j].num], 1,
                    [num |-> 0, den |-> 1]).num = 0

\* reactant columns positive, product columns negated, atom counts of the
\* elements in sorted order
stoichiometric(m) ==
    /\ Len(m) = Len(matrix.elements)
    /\ matrix.elements = SortStrings(symbolsOfEquation)
    /\ \A r \in 1..Len(m), j \in 1..Len(matrix.compounds) :
          m[r][j] =
              [num |-> (IF j <= Len(equation.reactants) THEN 1 ELSE -1)
                       * CountOf(parseChemicalFormula(
                                     (equation.reactants \o equation.products)[j].formula,
                                     loadedElementMap).elements,
                                 matrix.elements[r]),
               den |-> 1]

\* C24 (null space): with rank < number of compounds, the vector returned by
\* findNullSpace is 1 at the lowest free column, 0 at every other free
\* column, and M x = 0 holds exactly in every row of the stoichiometric
\* matrix M.
C24_NullSpace ==
    NullSpaceReturned =>
        /\ reduced.rank < Len(matrix.compounds)
        /\ Len(fractionSolution) = Len(matrix.compounds)
        /\ stoichiometric(matrix.matrix)
        /\ \A f \in freeColumns :
              fractionSolution[f + 1] =
                  IF \A g \in freeColumns : f <= g THEN RobustFraction(1, 1)
                  ELSE RobustFraction(0, 1)
        /\ solves(matrix.matrix, fractionSolution)

\* C + O2 -> CO + CO2 has two free columns, CO and CO2
C24_Witness ==
    /\ NullSpaceReturned
    /\ freeColumns = {2, 3}
    /\ fractionSolution[3] = RobustFraction(1, 1)
    /\ fractionSolution[4] = RobustFraction(0, 1)
    /\ fractionSolution[2] # RobustFraction(0, 1)

\* normalizeToPositiveIntegers has returned
NormalizeReturned == NullSpaceReturned /\ Len(integerCoeffs) > 0

\* c = k * x componentwise for one nonzero rational k
sameDirection(c, x) ==
    /\ Len(c) = Len(x)
    /\ \A i \in 1..Len(x) : (c[i] = 0) <=> (x[i].num = 0)
    /\ \A i, j \in 1..Len(x) :
          c[i] * x[j].num * x[i].den = c[j] * x[i].num * x[j].den

\* C25 (normalization keeps the direction): the integer vector returned by
\* normalizeToPositiveIntegers is k * x for one nonzero rational k, so it is
\* still a null-space vector of the stoichiometric matrix.
C25_Direction ==
    NormalizeReturned =>
        /\ sameDirection(integerCoeffs, fractionSolution)
        /\ solves(matrix.matrix,
                  [i \in 1..Len(integerCoeffs) |->
                      [num |-> integerCoeffs[i], den |-> 1]])

\* the direction is kept when no two components differ in sign
C25_DirectionOneSign ==
    (/\ NormalizeReturned
     /\ \/ \A i \in 1..Len(fractionSolution) : fractionSolution[i].num >= 0
        \/ \A i \in 1..Len(fractionSolution) : fractionSolution[i].num <= 0) =>
        sameDirection(integerCoeffs, fractionSolution)

\* with components of both signs every component is replaced by its
\* absolute value
C25_MixedSignsAbsolute ==
    (/\ NormalizeReturned
     /\ \E i, j \in 1..Len(fractionSolution) :
           fractionSolution[i].num < 0 /\ fractionSolution[j].num > 0) =>
        /\ ~sameDirection(integerCoeffs, fractionSolution)
        /\ sameDirection(integerCoeffs,
                         [i \in 1..Len(fractionSolution) |->
                             abs(fractionSolution[i])])

AlgebraicReturned == pc = "done" /\ algebraicCalled

Overdetermined == <<"Sistema sobredeterminado">>

\* C26 (overdetermined systems): balanceByAlgebraicMethodRobust returns
\* isValid = false with the overdetermined error exactly when elimination
\* found rank = number of compounds; findNullSpace, the normalization and the
\* validation have not run; the steps returned are the elimination's.
C26_Overdetermined ==
    AlgebraicReturned =>
        /\ (result.error = Overdetermined)
             <=> (EliminationReturned /\ reduced.rank = Len(matrix.compounds))
        /\ (result.error = Overdetermined) =>
              /\ ~result.isValid
              /\ result.method = "algebraic"
              /\ fractionSolution = <<>>
              /\ integerCoeffs = <<>>
              /\ result.steps =
                    [i \in 1..Len(reduced.steps) |->
                        Step(i, reduced.steps[i], <<>>, <<>>)]

\* H2 -> O2: rank 2 with two compounds, both rows divided by their pivot
C26_Witness ==
    /\ AlgebraicReturned
    /\ result.error = Overdetermined
    /\ reduced.rank = 2
    /\ Len(result.steps) = 2

MaxPositive == 7

\* the vectors of n coefficients within 1..MaxPositive
PositiveVectors(n) == [1..n -> 1..MaxPositive]

asFractions(v) == [i \in 1..Len(v) |-> [num |-> v[i], den |-> 1]]

balances(v) == solves(matrix.matrix, asFractions(v))

\* the null space has dimension 1 and a vector with every component positive
OnePositiveSolution ==
    /\ EliminationReturned
    /\ Len(matrix.compounds) - reduced.rank = 1
    /\ \E v \in PositiveVectors(Len(matrix.compounds)) : balances(v)

noCommonFactor(v) ==
    \A d \in 2..MaxPositive : \E i \in 1..Len(v) : v[i] % d # 0

\* C27 (algebraic completeness): for an equation whose null space has
\* dimension 1 and is spanned by a positive vector, the algebraic method
\* returns isValid = true with the positive integer null-space vector of
\* GCD 1, of which every other positive solution is a multiple.
C27_Completeness ==
    (AlgebraicReturned /\ OnePositiveSolution) =>
        /\ result.isValid
        /\ result.method = "algebraic"
        /\ Len(resultCoefficients) = Len(matrix.compounds)
        /\ \A i \in 1..Len(resultCoefficients) : resultCoefficients[i] >= 1
        /\ balances(resultCoefficients)
        /\ conserves(resultCoefficients)
        /\ noCommonFactor(resultCoefficients)
        /\ \A v \in PositiveVectors(Len(matrix.compounds)) :
              balances(v) =>
                  \A i, j \in 1..Len(v) :
                      /\ v[i] >= resultCoefficients[i]
                      /\ v[i] * resultCoefficients[j] = v[j] * resultCoefficients[i]

\* C2H6 + O2 -> CO2 + H2O: 2, 7, 4, 6
C27_Witness ==
    /\ AlgebraicReturned
    /\ OnePositiveSolution
    /\ result.isValid
    /\ resultCoefficients = <<2, 7, 4, 6>>

(***************************************************************************)
(* Properties of two calls of the balancers                                *)
(***************************************************************************)
formulasOfEquation(eq) ==
    [i \in 1..(Len(eq.reactants) + Len(eq.products)) |->
        (eq.reactants \o eq.products)[i].formula]

\* two calls of balanceChemicalEquation whose equations parsed to the same
\* formulas in the same order on each side
sameFormulas(a, b) ==
    /\ a.entry = "balanceChemicalEquation"
    /\ b.entry = "balanceChemicalEquation"
    /\ Len(a.result.originalEquation.reactants) > 0
    /\ Len(a.result.originalEquation.reactants)
         = Len(b.result.originalEquation.reactants)
    /\ formulasOfEquation(a.result.originalEquation)
         = formulasOfEquation(b.result.originalEquation)

sameAnswer(a, b) ==
    /\ a.result.isValid = b.result.isValid
    /\ coefficientsOf(a.result) = coefficientsOf(b.result)

\* C28 (input coefficients do not matter): two calls with the same method on
\* equations with the same formulas return the same isValid and the same
\* coefficients.
C28_InputCoefficients ==
    \A i, j \in 1..Len(calls) :
        (sameFormulas(calls[i], calls[j])
            /\ methodOf(calls[i].argument) = methodOf(calls[j].argument))
        => sameAnswer(calls[i], calls[j])

\* the algebraic method alone
C28_Algebraic ==
    \A i, j \in 1..Len(calls) :
        (sameFormulas(calls[i], calls[j])
            /\ methodOf(calls[i].argument) = "algebraic"
            /\ methodOf(calls[j].argument) = "algebraic")
        => sameAnswer(calls[i], calls[j])

\* trial and error, when the answer comes from the search loop
C28_TrialSearch ==
    \A i, j \in 1..Len(calls) :
        (sameFormulas(calls[i], calls[j])
            /\ methodOf(calls[i].argument) = "trial-and-error"
            /\ methodOf(calls[j].argument) = "trial-and-error"
            /\ Len(calls[i].result.steps) > 3)
        => sameAnswer(calls[i], calls[j])

\* C29 (method agreement): when trial and error and the algebraic method both
\* return isValid = true for the same equation, their coefficients are the
\* same.
C29_MethodAgreement ==
    \A i, j \in 1..Len(calls) :
        (/\ calls[i].entry = "balanceChemicalEquation"
         /\ calls[j].entry = "balanceChemicalEquation"
         /\ calls[i].argument.equation = calls[j].argument.equation
         /\ methodOf(calls[i].argument) = "trial-and-error"
         /\ methodOf(calls[j].argument) = "algebraic"
         /\ calls[i].result.isValid
         /\ calls[j].result.isValid)
        => coefficientsOf(calls[i].result) = coefficientsOf(calls[j].result)

\* C + O2 = CO + CO2 by trial and error: 3, 2, 2, 1
C29_TrialOnTwoFreeColumns ==
    /\ BalanceReturned
    /\ input.equation = plain(C_O2_CO_CO2)
    /\ methodOf(input) = "trial-and-error"
    /\ result.isValid
    /\ resultCoefficients = <<3, 2, 2, 1>>

\* C + O2 = CO + CO2 by the algebraic method: 2, 1, 2, 0
C29_AlgebraicOnTwoFreeColumns ==
    /\ BalanceReturned
    /\ input.equation = plain(C_O2_CO_CO2)
    /\ methodOf(input) = "algebraic"
    /\ result.isValid
    /\ resultCoefficients = <<2, 1, 2, 0>>

(***************************************************************************)
(* Properties of the vector found by balanceByTrialAndError                *)
(***************************************************************************)
\* the search loop has returned a solution
FoundInLoop ==
    /\ pc = "done"
    /\ entry \in {"balanceChemicalEquation", "balanceByTrialAndError"}
    /\ result.isValid
    /\ result.method = "trial-and-error"
    /\ tested >= 1

simplifiedStep(step) ==
    /\ Len(step.description) >= 1
    /\ step.description[1] = "Coeficientes simplificados por MCD"

\* C30 (the first vector found has GCD 1): the vector at which the loop stops
\* has no common factor, simplifyCoefficients returns it unchanged, the
\* coefficients returned are that vector, and no 'simplified by GCD' step is
\* in the trace.
C30_FirstFoundPrimitive ==
    FoundInLoop =>
        /\ \A d \in 2..maxCoefficient : \E i \in 1..Len(vector) : vector[i] % d # 0
        /\ gcd(vector) = 1
        /\ simplifyCoefficients(vector) = vector
        /\ resultCoefficients = vector
        /\ rank(vector) = tested - 1
        /\ \A k \in 1..Len(result.steps) : ~simplifiedStep(result.steps[k])

\* Fe + O2 -> Fe2O3 is found at 4, 3, 2
C30_Witness ==
    /\ FoundInLoop
    /\ vector = <<4, 3, 2>>
    /\ resultCoefficients = <<4, 3, 2>>

====
